---- MODULE Spec2Model ----
(***************************************************************************)
(* Contribution graph of DevInsights' BackendService: the ingestion of     *)
(* commit facts into the property graph (services/Graph_db_service.py) and *)
(* the analytic queries read from it (services/GraphQueries.py,            *)
(* services/Graph.analytics.py and the controllers).                       *)
(*                                                                         *)
(* The graph is a set of labelled nodes with store-assigned identities and *)
(* a set of typed relationships between identities.  A Cypher MERGE of a   *)
(* node is "match, and create when nothing matched"; the store has no      *)
(* uniqueness constraint, so under concurrency the match and the create of *)
(* one MERGE are two steps (SpecConc).  A MERGE of a relationship between  *)
(* bound nodes is atomic (the store locks both end nodes).                 *)
(***************************************************************************)
EXTENDS Integers, Sequences, FiniteSets, TLC

VARIABLES graph,      \* the property graph held by the store
          ingested,   \* number of process_commit_data calls made so far
          op,         \* the last operation called, with its arguments
          result,     \* what the last analytic call gave its caller
          workers,    \* SpecConc: the executor threads running _process_commit_sync
          rerun,      \* SpecBatch: the batch being ingested, and its second run
          db,         \* the tables of the relational database (crud.py)
          catalog,    \* the named graph projections the store's catalog holds
          calls       \* the calls of concurrent callers that are under way

vars == <<graph, ingested, op, result, workers, rerun, db, catalog, calls>>

(***************************************************************************)
(* Bounds of the model.                                                    *)
(***************************************************************************)
MaxIngest == 2      \* process_commit_data calls per behaviour
MaxChanges == 1     \* file entries (over the three lists) of one commit fact
MaxLimit == 2       \* largest limit passed to a query

Repos == {"o/r1", "o/r2"}
Logins == {"", "al", "bo"}          \* "" : the commit has no GitHub login
AuthorNames == {"Al", "Alan"}
Emails == {"e"}
Hashes == {"h1", "h2"}
Dates == {"t"}
Messages == {"m"}
Paths == {<<"a">>, <<"m", "b">>}     \* a path is its sequence of segments
Limits == (0 - 1) .. MaxLimit

ChangeTypes == {"ADDED", "MODIFIED", "DELETED"}
NoInfo == [name |-> "none"]          \* a falsy repository_info

(***************************************************************************)
(* repository_info as fetch_commits builds it from the repository name.    *)
(***************************************************************************)
repository_info(repo) ==
    [name |-> repo, url |-> <<"https://github.com", repo>>,
     description |-> <<"Repository", repo>>]

PathLists == UNION {[1..n -> Paths] : n \in 0..MaxChanges}

Facts ==
    {f \in [sha : Hashes, author_name : AuthorNames, author_email : Emails,
            author_github : Logins, date : Dates, message : Messages,
            added_files : PathLists, modified_files : PathLists,
            deleted_files : PathLists,
            repository_info : {repository_info(r) : r \in Repos}] :
        Len(f.added_files) + Len(f.modified_files) + Len(f.deleted_files)
            <= MaxChanges}

EmptyGraph ==
    [repos |-> {}, devs |-> {}, files |-> {}, commits |-> {}, rels |-> {},
     next |-> 1]

Rel(type, src, dst) == [type |-> type, src |-> src, dst |-> dst]

(***************************************************************************)
(* MATCH halves of the node MERGEs: identities of the nodes the pattern    *)
(* matches.                                                                *)
(***************************************************************************)
match_repository(g, name) == {r.id : r \in {x \in g.repos : x.name = name}}

match_developer(g, github, repo_name) ==
    {d.id : d \in {x \in g.devs : x.github = github /\ x.repository = repo_name}}

match_commit(g, hash) == {c.id : c \in {x \in g.commits : x.hash = hash}}

match_file(g, path, repo_name) ==
    {f.id : f \in {x \in g.files : x.path = path /\ x.repository = repo_name}}

(***************************************************************************)
(* MERGE (r:Repository {name}) SET r.url, r.description.  seen is what the *)
(* MERGE's match found: nothing, and the node is created.                  *)
(***************************************************************************)
create_repository_tx(g, repo_info, seen) ==
    LET fresh == seen = {}
        bound == IF fresh THEN {g.next} ELSE seen
        old == {r \in g.repos : r.id \in bound}
        new == IF fresh
               THEN {[id |-> g.next, name |-> repo_info.name,
                      url |-> repo_info.url,
                      description |-> repo_info.description]}
               ELSE {[r EXCEPT !.url = repo_info.url,
                               !.description = repo_info.description] : r \in old}
    IN  [g EXCEPT !.repos = (@ \ old) \cup new,
                  !.next = IF fresh THEN @ + 1 ELSE @]

create_repository(g, repo_info) ==
    create_repository_tx(g, repo_info, match_repository(g, repo_info.name))

(***************************************************************************)
(* MERGE (d:Developer {github, repository}) SET d.name, d.email            *)
(* WITH d MATCH (r:Repository {name}) MERGE (d)-[:BELONGS_TO]->(r)         *)
(***************************************************************************)
create_developer_tx(g, author, repo_name, seen) ==
    LET fresh == seen = {}
        bound == IF fresh THEN {g.next} ELSE seen
        old == {d \in g.devs : d.id \in bound}
        new == IF fresh
               THEN {[id |-> g.next, github |-> author.github,
                      repository |-> repo_name, name |-> author.name,
                      email |-> author.email]}
               ELSE {[d EXCEPT !.name = author.name,
                               !.email = author.email] : d \in old}
    IN  [g EXCEPT !.devs = (@ \ old) \cup new,
                  !.rels = @ \cup {Rel("BELONGS_TO", d, r) :
                                     d \in bound, r \in match_repository(g, repo_name)},
                  !.next = IF fresh THEN @ + 1 ELSE @]

create_developer(g, author, repo_name) ==
    create_developer_tx(g, author, repo_name,
                        match_developer(g, author.github, repo_name))

(***************************************************************************)
(* MERGE (c:Commit {hash}) SET c.timestamp, c.message                      *)
(* WITH c MATCH (r:Repository {name}) MERGE (c)-[:BELONGS_TO]->(r)         *)
(***************************************************************************)
create_commit_tx(g, commit, repo_name, seen) ==
    LET fresh == seen = {}
        bound == IF fresh THEN {g.next} ELSE seen
        old == {c \in g.commits : c.id \in bound}
        new == IF fresh
               THEN {[id |-> g.next, hash |-> commit.hash,
                      timestamp |-> commit.timestamp,
                      message |-> commit.message]}
               ELSE {[c EXCEPT !.timestamp = commit.timestamp,
                               !.message = commit.message] : c \in old}
    IN  [g EXCEPT !.commits = (@ \ old) \cup new,
                  !.rels = @ \cup {Rel("BELONGS_TO", c, r) :
                                     c \in bound, r \in match_repository(g, repo_name)},
                  !.next = IF fresh THEN @ + 1 ELSE @]

\* the commit statement written with CREATE where the code has MERGE
create_commit_by_create(g, commit, repo_name) ==
    create_commit_tx(g, commit, repo_name, {})

create_commit(g, commit, repo_name) ==
    create_commit_tx(g, commit, repo_name, match_commit(g, commit.hash))

(***************************************************************************)
(* MATCH (d:Developer {github, repository}), (c:Commit {hash})             *)
(* MERGE (c)-[:COMMITTED_BY]->(d)                                          *)
(***************************************************************************)
link_commit_to_developer(g, commit, repo_name) ==
    [g EXCEPT !.rels = @ \cup
        {Rel("COMMITTED_BY", c, d) :
            c \in match_commit(g, commit.hash),
            d \in match_developer(g, commit.author.github, repo_name)}]

(***************************************************************************)
(* filename = file_path.split("/")[-1]                                     *)
(***************************************************************************)
filename_of(path) == path[Len(path)]

(***************************************************************************)
(* One pass of the loop of _handle_file_relationships:                     *)
(* MERGE (f:File {path, repository}) SET f.filename                        *)
(* WITH f MATCH (r:Repository {name}) MERGE (f)-[:BELONGS_TO]->(r)         *)
(* WITH f MATCH (c:Commit {hash}) MERGE (c)-[:<relation_type>]->(f)        *)
(***************************************************************************)
file_relationship_tx(g, hash, file_path, relation_type, repo_name, seen) ==
    LET fresh == seen = {}
        bound == IF fresh THEN {g.next} ELSE seen
        old == {f \in g.files : f.id \in bound}
        new == IF fresh
               THEN {[id |-> g.next, path |-> file_path,
                      repository |-> repo_name,
                      filename |-> filename_of(file_path)]}
               ELSE {[f EXCEPT !.filename = filename_of(file_path)] : f \in old}
        rs == match_repository(g, repo_name)
        \* the second WITH f carries rows only for files that matched a repository
        fs == IF rs = {} THEN {} ELSE bound
    IN  [g EXCEPT !.files = (@ \ old) \cup new,
                  !.rels = @ \cup {Rel("BELONGS_TO", f, r) : f \in bound, r \in rs}
                             \cup {Rel(relation_type, c, f) :
                                     c \in match_commit(g, hash), f \in fs},
                  !.next = IF fresh THEN @ + 1 ELSE @]

RECURSIVE handle_file_relationships(_, _, _, _, _)
handle_file_relationships(g, hash, file_list, relation_type, repo_name) ==
    IF file_list = <<>> THEN g
    ELSE handle_file_relationships(
            file_relationship_tx(g, hash, Head(file_list), relation_type, repo_name,
                                 match_file(g, Head(file_list), repo_name)),
            hash, Tail(file_list), relation_type, repo_name)

(***************************************************************************)
(* author["github"] = author_github or "unknown"                           *)
(***************************************************************************)
author_of(f) ==
    [name |-> f.author_name, email |-> f.author_email,
     github |-> IF f.author_github = "" THEN "unknown" ELSE f.author_github]

commit_data_of(f) ==
    [hash |-> f.sha, timestamp |-> f.date, message |-> f.message,
     author |-> author_of(f)]

process_commit_sync(g, f) ==
    LET repo_name == f.repository_info.name
        g1 == create_repository(g, f.repository_info)
        g2 == create_developer(g1, author_of(f), repo_name)
        g3 == create_commit(g2, commit_data_of(f), repo_name)
        g4 == link_commit_to_developer(g3, commit_data_of(f), repo_name)
        g5 == handle_file_relationships(g4, f.sha, f.added_files, "ADDED", repo_name)
        g6 == handle_file_relationships(g5, f.sha, f.modified_files, "MODIFIED", repo_name)
    IN  handle_file_relationships(g6, f.sha, f.deleted_files, "DELETED", repo_name)

(***************************************************************************)
(* if not repository_info: return                                          *)
(***************************************************************************)
process_commit_data(g, f) ==
    IF f.repository_info = NoInfo THEN g ELSE process_commit_sync(g, f)

(***************************************************************************)
(* Reading the graph.                                                      *)
(***************************************************************************)
RepoNodes(g, repo_name) == {r \in g.repos : r.name = repo_name}

BelongsTo(g, n, repo_name) ==
    \E r \in RepoNodes(g, repo_name) : Rel("BELONGS_TO", n.id, r.id) \in g.rels

\* MATCH (f:File)-[:BELONGS_TO]->(r): one row per file and edge into r
FileRows(g, r) == {f \in g.files : Rel("BELONGS_TO", f.id, r.id) \in g.rels}

\* (c)-[:ADDED|MODIFIED|DELETED]->(f): the change edges between c and f
ChangeRels(g, c, f) == {e \in g.rels : e.type \in ChangeTypes /\ e.src = c.id /\ e.dst = f.id}

AuthorRels(g, c) ==
    {e \in g.rels : e.type = "COMMITTED_BY" /\ e.src = c.id
                    /\ \E d \in g.devs : d.id = e.dst}

\* (d)<-[:COMMITTED_BY]-(c:Commit)-[:ADDED|MODIFIED|DELETED]->(reachable_file:File)
Reachable(g, d) ==
    {f \in g.files : \E c \in g.commits :
        /\ Rel("COMMITTED_BY", c.id, d.id) \in g.rels
        /\ ChangeRels(g, c, f) # {}}

\* (c:Commit)-[:ADDED|MODIFIED|DELETED]->(f), (c)-[:COMMITTED_BY]->(d:Developer)
Contributors(g, f) == {d \in g.devs : f \in Reachable(g, d)}

(***************************************************************************)
(* toFloat(a) / b of two small integers is kept as the pair <<a, b>>;      *)
(* two such quotients compare as the fractions do.                         *)
(***************************************************************************)
RatLess(x, y) == x[1] * y[2] < y[1] * x[2]
RatEq(x, y) == x[1] * y[2] = y[1] * x[2]

Perms(S) ==
    LET n == Cardinality(S)
    IN  {s \in [1..n -> S] : \A i, j \in 1..n : i # j => s[i] # s[j]}

(***************************************************************************)
(* ORDER BY (and Python's stable sort of rows that arrive in no fixed      *)
(* order): every arrangement in which no row precedes one that sorts       *)
(* strictly before it (before: the pairs <<a, b>> with a sorting strictly   *)
(* before b).  Rows that compare equal come in any order.                  *)
(***************************************************************************)
Ordered(S, before) ==
    {s \in Perms(S) : \A i, j \in 1..Len(s) : i < j => <<s[j], s[i]>> \notin before}

Min(a, b) == IF a < b THEN a ELSE b
Max(a, b) == IF a > b THEN a ELSE b

\* Cypher LIMIT n, n >= 0
Limit(s, n) == SubSeq(s, 1, Min(n, Len(s)))

\* Python s[:n]: a negative n counts from the end
Slice(s, n) == IF n >= 0 THEN SubSeq(s, 1, Min(n, Len(s)))
               ELSE SubSeq(s, 1, Max(0, Len(s) + n))

Ok(rows) == [status |-> "ok", rows |-> rows]
\* the store rejects a negative LIMIT, and the driver raises
Raised == [status |-> "error", rows |-> <<>>]

(***************************************************************************)
(* GraphQueries.get_jacks                                                  *)
(***************************************************************************)
\* rows after WITH r, d, count(f) as total_files
JackGroups(g, repo_name) ==
    {<<r, d>> \in RepoNodes(g, repo_name) \X g.devs :
        /\ Rel("BELONGS_TO", d.id, r.id) \in g.rels
        /\ FileRows(g, r) # {}}

JackRow(g, grp) ==
    LET files_touched == Cardinality(Reachable(g, grp[2]))
        total_files == Cardinality(FileRows(g, grp[1]))
    IN  [github |-> grp[2].github, name |-> grp[2].name, email |-> grp[2].email,
         files_reached |-> files_touched, total_files |-> total_files,
         knowledge_breadth |-> <<files_touched, total_files>>]

\* ORDER BY knowledge_breadth DESC
JackBefore(g, S) ==
    {<<a, b>> \in S \X S :
        RatLess(JackRow(g, b).knowledge_breadth, JackRow(g, a).knowledge_breadth)}

get_jacks(g, repo_name, limit) ==
    IF limit < 0 THEN {Raised}
    ELSE {Ok(Limit([i \in 1..Len(s) |-> JackRow(g, s[i])], limit)) :
            s \in Ordered(JackGroups(g, repo_name),
                          JackBefore(g, JackGroups(g, repo_name)))}

(***************************************************************************)
(* RepositoryAnalytics.get_jack_developers: the same rows, kept when       *)
(* coverage >= $min_file_coverage, no LIMIT.                               *)
(***************************************************************************)
get_jack_developers(g, repo_name, min_file_coverage) ==
    LET kept == {grp \in JackGroups(g, repo_name) :
                    ~RatLess(JackRow(g, grp).knowledge_breadth, min_file_coverage)}
    IN  {Ok([i \in 1..Len(s) |-> JackRow(g, s[i])]) :
            s \in Ordered(kept, JackBefore(g, kept))}

(***************************************************************************)
(* GraphQueries.get_mavens                                                 *)
(***************************************************************************)
\* the rows of the first query: one per critical file, change edge into it
\* and COMMITTED_BY edge of that edge's commit
CriticalRows(g, repo_name) ==
    {row \in [f : {f \in g.files : BelongsTo(g, f, repo_name)
                                   /\ Cardinality(Contributors(g, f)) = 1},
              change : {e \in g.rels : e.type \in ChangeTypes},
              by : {e \in g.rels : e.type = "COMMITTED_BY"}] :
        /\ row.change.dst = row.f.id
        /\ row.by.src = row.change.src
        /\ \E c \in g.commits : c.id = row.change.src
        /\ \E d \in g.devs : d.id = row.by.dst}

GithubOf(g, id) == (CHOOSE d \in g.devs : d.id = id).github

\* dev_to_files[github]: one entry per row
dev_to_files(g, repo_name, github) ==
    {row \in CriticalRows(g, repo_name) : GithubOf(g, row.by.dst) = github}

\* count(f) over (f:File)-[:BELONGS_TO]->(:Repository {name})
TotalFiles(g, repo_name) ==
    Cardinality({<<f, r>> \in g.files \X RepoNodes(g, repo_name) :
                    Rel("BELONGS_TO", f.id, r.id) \in g.rels})

\* dev_result.single(): the record, none, or one of several
DevDetails(g, repo_name, github) ==
    LET m == {d \in g.devs : d.github = github /\ BelongsTo(g, d, repo_name)}
    IN  IF m = {} THEN {[name |-> "None", email |-> "None"]}
        ELSE {[name |-> d.name, email |-> d.email] : d \in m}

MavenRows(g, repo_name, github) ==
    LET rare_files_count == Cardinality(dev_to_files(g, repo_name, github))
    IN  {[github |-> github, name |-> det.name, email |-> det.email,
          rare_files_count |-> rare_files_count,
          mavenness |-> <<rare_files_count, TotalFiles(g, repo_name)>>] :
            det \in DevDetails(g, repo_name, github)}

get_mavens(g, repo_name, limit) ==
    LET githubs == {GithubOf(g, row.by.dst) : row \in CriticalRows(g, repo_name)}
        count(gh) == Cardinality(dev_to_files(g, repo_name, gh))
        \* maven_results.sort(key=mavenness, reverse=True) is stable
        orders == Ordered(githubs,
                          {<<a, b>> \in githubs \X githubs : count(a) > count(b)})
        all == UNION {MavenRows(g, repo_name, gh) : gh \in githubs}
    IN  IF githubs # {} /\ TotalFiles(g, repo_name) = 0 THEN {Raised}
        ELSE {Ok(Slice(rows, limit)) :
                rows \in UNION {{rs \in [1..Len(s) -> all] :
                                    \A i \in 1..Len(s) :
                                        rs[i] \in MavenRows(g, repo_name, s[i])} :
                                s \in orders}}

(***************************************************************************)
(* GraphQueries.get_connectors                                             *)
(***************************************************************************)
\* MATCH (d:Developer)-[:BELONGS_TO]->(:Repository {name: $repo_name})
DevelopersOf(g, repo_name) == {d \in g.devs : BelongsTo(g, d, repo_name)}

\* OPTIONAL MATCH (d)<-[:COMMITTED_BY]-(c1:Commit)
\* OPTIONAL MATCH (c1)-[:ADDED|MODIFIED|DELETED]->(f:File)
\*                       <-[:ADDED|MODIFIED|DELETED]-(c2:Commit)
\* the two change edges of one pattern are different edges
ConnectorPaths(g, d) ==
    {p \in [e1 : {e \in g.rels : e.type \in ChangeTypes},
            e2 : {e \in g.rels : e.type \in ChangeTypes}] :
        /\ p.e1 # p.e2
        /\ p.e1.dst = p.e2.dst
        /\ \E f \in g.files : f.id = p.e1.dst
        /\ \E c1 \in g.commits :
            c1.id = p.e1.src /\ Rel("COMMITTED_BY", c1.id, d.id) \in g.rels
        /\ \E c2 \in g.commits : c2.id = p.e2.src}

\* OPTIONAL MATCH (c2)-[:COMMITTED_BY]->(other:Developer)
\* WHERE d <> other AND other.repository = $repo_name
ConnectorOthers(g, d, repo_name) ==
    {other \in g.devs :
        /\ other # d
        /\ other.repository = repo_name
        /\ \E p \in ConnectorPaths(g, d) :
            Rel("COMMITTED_BY", p.e2.src, other.id) \in g.rels}

ConnectorRow(g, d, repo_name) ==
    LET collaborator_count == Cardinality(ConnectorOthers(g, d, repo_name))
        \* count(DISTINCT f): f stays bound on the rows where other is null
        shared_file_count == Cardinality({p.e1.dst : p \in ConnectorPaths(g, d)})
    IN  [github |-> d.github, name |-> d.name, email |-> d.email,
         collaborator_count |-> collaborator_count,
         shared_file_count |-> shared_file_count,
         betweenness_centrality |-> collaborator_count * shared_file_count]

\* ORDER BY betweenness_centrality DESC
ConnectorBefore(g, S, repo_name) ==
    {<<a, b>> \in S \X S :
        ConnectorRow(g, a, repo_name).betweenness_centrality
            > ConnectorRow(g, b, repo_name).betweenness_centrality}

get_connectors(g, repo_name, limit) ==
    IF limit < 0 THEN {Raised}
    ELSE {Ok(Limit([i \in 1..Len(s) |-> ConnectorRow(g, s[i], repo_name)], limit)) :
            s \in Ordered(DevelopersOf(g, repo_name),
                          ConnectorBefore(g, DevelopersOf(g, repo_name), repo_name))}

(***************************************************************************)
(* GraphQueries.get_replacements                                           *)
(***************************************************************************)
\* (x)<-[:COMMITTED_BY]-(c:Commit)-[:ADDED|MODIFIED|DELETED]->(file:File)
\* WHERE file.repository = $repo_name ... collect(DISTINCT file)
dev_files(g, d, repo_name) == {f \in Reachable(g, d) : f.repository = repo_name}

\* one row per leaving developer with files and other developer with files
ReplacementGroups(g, repo_name, leaving_github) ==
    {<<leaving, other>> \in g.devs \X g.devs :
        /\ leaving.github = leaving_github
        /\ leaving.repository = repo_name
        /\ dev_files(g, leaving, repo_name) # {}
        /\ BelongsTo(g, other, repo_name)
        /\ other.github # leaving_github
        /\ dev_files(g, other, repo_name) # {}}

ReplacementRow(g, grp, repo_name) ==
    LET leaving_dev_files == dev_files(g, grp[1], repo_name)
        other_dev_files == dev_files(g, grp[2], repo_name)
        overlapping_files == {f \in other_dev_files : f \in leaving_dev_files}
    IN  [github |-> grp[2].github, name |-> grp[2].name, email |-> grp[2].email,
         leaving_dev_file_count |-> Cardinality(leaving_dev_files),
         shared_file_count |-> Cardinality(overlapping_files),
         overlap_ratio |-> <<Cardinality(overlapping_files),
                             Cardinality(leaving_dev_files)>>]

\* ORDER BY overlap_ratio DESC
ReplacementBefore(g, S, repo_name) ==
    {<<a, b>> \in S \X S :
        RatLess(ReplacementRow(g, b, repo_name).overlap_ratio,
                ReplacementRow(g, a, repo_name).overlap_ratio)}

get_replacements(g, repo_name, leaving_github, limit) ==
    IF limit < 0 THEN {Raised}
    ELSE {Ok(Limit([i \in 1..Len(s) |-> ReplacementRow(g, s[i], repo_name)], limit)) :
            s \in Ordered(ReplacementGroups(g, repo_name, leaving_github),
                          ReplacementBefore(g, ReplacementGroups(g, repo_name,
                                                                 leaving_github),
                                            repo_name))}

(***************************************************************************)
(* The endpoint .../developers/{github}/replacements:                      *)
(*   try: r = queries.get_replacements(...)                                *)
(*        if not r: raise HTTPException(404) ; return r                    *)
(*   except Exception: raise HTTPException(500)                            *)
(* HTTPException is an Exception, so the handler's own 404 is caught.      *)
(***************************************************************************)
Http(code, rows) == [status |-> "http", code |-> code, rows |-> rows]

replacements_endpoint(r) ==
    LET raised == IF r.status = "ok" /\ r.rows # <<>>
                  THEN "none"
                  ELSE IF r.status = "ok" THEN "HTTPException(404)" ELSE "Exception"
    IN  IF raised = "none" THEN Http(200, r.rows) ELSE Http(500, <<>>)

(***************************************************************************)
(* RepositoryAnalytics.get_replacement_recommendations                     *)
(***************************************************************************)
\* MATCH (c1)-[:COMMITTED_BY]->(target) MATCH (c1)-[..]->(f) ... collect(f):
\* one entry per commit of the target and change edge of that commit
target_files(g, target) ==
    {e \in g.rels : /\ e.type \in ChangeTypes
                    /\ \E f \in g.files : f.id = e.dst
                    /\ \E c1 \in g.commits :
                        c1.id = e.src /\ Rel("COMMITTED_BY", c1.id, target.id) \in g.rels}

RecommendationGroups(g, repo_name, developer_github) ==
    {<<target, other>> \in g.devs \X g.devs :
        /\ target.github = developer_github
        /\ target.repository = repo_name
        /\ target_files(g, target) # {}
        /\ BelongsTo(g, other, repo_name)
        /\ other.github # developer_github}

RecommendationRow(g, grp) ==
    LET \* collect(DISTINCT f) over the other's files WHERE f IN target_files
        shared_files == {f \in Reachable(g, grp[2]) :
                            \E e \in target_files(g, grp[1]) : e.dst = f.id}
    IN  [github |-> grp[2].github, name |-> grp[2].name, email |-> grp[2].email,
         target_developer_files |-> Cardinality(target_files(g, grp[1])),
         shared_files |-> Cardinality(shared_files),
         knowledge_overlap |-> <<Cardinality(shared_files),
                                 Cardinality(target_files(g, grp[1]))>>]

\* ORDER BY knowledge_overlap DESC
RecommendationBefore(g, S) ==
    {<<a, b>> \in S \X S :
        RatLess(RecommendationRow(g, b).knowledge_overlap,
                RecommendationRow(g, a).knowledge_overlap)}

get_replacement_recommendations(g, repo_name, developer_github) ==
    {Ok([i \in 1..Len(s) |-> RecommendationRow(g, s[i])]) :
        s \in Ordered(RecommendationGroups(g, repo_name, developer_github),
                      RecommendationBefore(g, RecommendationGroups(g, repo_name,
                                                                   developer_github)))}

(***************************************************************************)
(* GraphQueries.get_knowledge_distribution                                 *)
(*                                                                         *)
(* Every coverage of one call has the same denominator total_files, so the *)
(* statistics are computed on the numerators files_touched: with n values  *)
(* k[i] of sum S and d[i] = n * k[i] - S,                                  *)
(*   average_coverage = S / (n * total_files)                              *)
(*   coverage_std_dev ^ 2 = sum d[i]^2 / (n^3 * total_files^2)             *)
(*   skewness = (sum d[i]^3 / n) / (sum d[i]^2 / n) ^ (3/2)                *)
(* The root is not taken: the record carries the square of the standard    *)
(* deviation and the two sums that make the skewness.  Arithmetic is       *)
(* exact; the rounding of the store's 64-bit floats is not modelled.       *)
(***************************************************************************)
RECURSIVE SumSeq(_)
SumSeq(s) == IF s = <<>> THEN 0 ELSE Head(s) + SumSeq(Tail(s))

MaxSeq(s) == IF s = <<>> THEN 0 ELSE CHOOSE m \in {s[i] : i \in 1..Len(s)} :
                                        \A i \in 1..Len(s) : s[i] <= m

Deviations(ks) == [i \in 1..Len(ks) |-> Len(ks) * ks[i] - SumSeq(ks)]
Squares(ds) == [i \in 1..Len(ds) |-> ds[i] * ds[i]]
Cubes(ds) == [i \in 1..Len(ds) |-> ds[i] * ds[i] * ds[i]]

\* CASE WHEN coverage_std_dev > 0 THEN reduce(...) / size(coverage_values) ELSE 0
skewness_of(ks) ==
    IF SumSeq(Squares(Deviations(ks))) > 0
    THEN [m3 |-> SumSeq(Cubes(Deviations(ks))),
          m2 |-> SumSeq(Squares(Deviations(ks))), n |-> Len(ks)]
    ELSE [m3 |-> 0, m2 |-> 0, n |-> Len(ks)]

\* skewness > 1.0
SkewnessAboveOne(sk) == sk.m3 > 0 /\ sk.n * sk.m3 * sk.m3 > sk.m2 * sk.m2 * sk.m2

\* WHEN skewness > 1.0 OR max_coverage > (3 * average_coverage) THEN 'hero'
distribution_type_of(ks) ==
    IF SkewnessAboveOne(skewness_of(ks)) \/ Len(ks) * MaxSeq(ks) > 3 * SumSeq(ks)
    THEN "hero" ELSE "balanced"

\* MATCH (d:Developer)-[:BELONGS_TO]->(r)
DevRows(g, r) == {d \in g.devs : Rel("BELONGS_TO", d.id, r.id) \in g.rels}

\* [d in developers WHERE d.coverage = max_coverage][0]
TopIndex(ks) ==
    CHOOSE i \in 1..Len(ks) :
        ks[i] = MaxSeq(ks) /\ \A j \in 1..(i - 1) : ks[j] # MaxSeq(ks)

\* the record of Repository node r, its developers collected in the order s
KnowledgeRecord(g, r, s) ==
    LET total_files == Cardinality(FileRows(g, r))
        \* COUNT(DISTINCT reachable_file) of each developer
        ks == [j \in 1..Len(s) |-> Cardinality(Reachable(g, s[j]))]
    IN  [top_contributor |-> s[TopIndex(ks)].github,
         top_coverage |-> <<MaxSeq(ks), total_files>>,
         average_coverage |-> <<SumSeq(ks), Len(ks) * total_files>>,
         coverage_variance |-> <<SumSeq(Squares(Deviations(ks))),
                                 Len(ks) * Len(ks) * Len(ks)
                                    * total_files * total_files>>,
         skewness |-> skewness_of(ks),
         dev_count |-> Len(s),
         total_files |-> total_files,
         distribution_type |-> distribution_type_of(ks)]

\* one record per Repository node with a developer and a file; collect()
\* takes the developers in no fixed order
KnowledgeRecords(g, repo_name) ==
    UNION {{KnowledgeRecord(g, r, s) : s \in Perms(DevRows(g, r))} :
            r \in {x \in RepoNodes(g, repo_name) :
                        DevRows(g, x) # {} /\ FileRows(g, x) # {}}}

Record(rec) == [status |-> "ok", record |-> rec]

\* record = result.single(); if record is None: return the "unknown" record
UnknownDistribution ==
    [top_contributor |-> "unknown",
     top_coverage |-> <<0, 1>>,
     average_coverage |-> <<0, 1>>,
     coverage_variance |-> <<0, 1>>,
     skewness |-> [m3 |-> 0, m2 |-> 0, n |-> 0],
     dev_count |-> 0,
     total_files |-> 0,
     distribution_type |-> "unknown"]

get_knowledge_distribution(g, repo_name) ==
    IF KnowledgeRecords(g, repo_name) = {} THEN {Record(UnknownDistribution)}
    ELSE {Record(rec) : rec \in KnowledgeRecords(g, repo_name)}

(***************************************************************************)
(* RepositoryAnalytics.get_knowledge_distribution                          *)
(***************************************************************************)
Null == "null"

\* (f:File)-[:BELONGS_TO]->(r:Repository {name: $repo_name})
FilesOf(g, repo_name) == {f \in g.files : BelongsTo(g, f, repo_name)}

\* OPTIONAL MATCH (c)-[:ADDED|MODIFIED|DELETED]->(f)
\* OPTIONAL MATCH (c)-[:COMMITTED_BY]->(d:Developer)
\* WITH f, d, count(c) as commit_count: the handles d.github of the groups
\* (f, d) with their counts, Null where no developer was matched
FileCommitCounts(g, f) ==
    LET changes == {e \in g.rels : /\ e.type \in ChangeTypes /\ e.dst = f.id
                                   /\ \E c \in g.commits : c.id = e.src}
        by(e) == {d \in g.devs : Rel("COMMITTED_BY", e.src, d.id) \in g.rels}
        orphan == {e \in changes : by(e) = {}}
    IN  {[developer |-> d.github,
          commits |-> Cardinality({e \in changes : d \in by(e)})] :
            d \in UNION {by(e) : e \in changes}}
        \cup (IF changes = {} \/ orphan # {}
              THEN {[developer |-> Null, commits |-> Cardinality(orphan)]}
              ELSE {})

\* ORDER BY f, commit_count DESC ... collect(...)[0]: a group of f with the
\* most commits
FileTopContributors(g, f) ==
    {x.developer : x \in {y \in FileCommitCounts(g, f) :
                            \A z \in FileCommitCounts(g, f) : z.commits <= y.commits}}

\* WITH top_contributor.developer as top_dev, count(f) as file_count
\* ORDER BY file_count DESC ... top_devs[0], for one choice top of the files'
\* top contributors
TopDevs(g, repo_name, top) ==
    LET file_count(dev) == Cardinality({f \in FilesOf(g, repo_name) : top[f] = dev})
        devs == {top[f] : f \in FilesOf(g, repo_name)}
    IN  {[developer |-> dev, file_count |-> file_count(dev)] :
            dev \in {x \in devs : \A y \in devs : file_count(y) <= file_count(x)}}

\* count(c) over OPTIONAL MATCH (c:Commit)-[:COMMITTED_BY]->(d)
commit_count(g, d) ==
    Cardinality({c \in g.commits : Rel("COMMITTED_BY", c.id, d.id) \in g.rels})

RECURSIVE WeightedSum(_, _)
WeightedSum(counts, i) ==
    IF i > Len(counts) THEN 0 ELSE i * counts[i] + WeightedSum(counts, i + 1)

\* gini_coefficient = sum((i+1) * sorted_counts[i]) * 2.0
\*                      / (dev_count * total_commits) - (dev_count + 1.0) / dev_count,
\* 0 for at most one developer
gini_coefficient(sorted_counts) ==
    IF Len(sorted_counts) <= 1 THEN <<0, 1>>
    ELSE <<2 * WeightedSum(sorted_counts, 1)
             - (Len(sorted_counts) + 1) * SumSeq(sorted_counts),
           Len(sorted_counts) * SumSeq(sorted_counts)>>

\* gini_coefficient > 0.5 OR 1.0 * file_count / total_files > 0.3
analytics_distribution_type(gini, file_count, total_files) ==
    IF (gini[2] > 0 /\ RatLess(<<1, 2>>, gini)) \/ 10 * file_count > 3 * total_files
    THEN "hero-based" ELSE "balanced"

AnalyticsRecords(g, repo_name) ==
    LET devs == DevelopersOf(g, repo_name)
        \* ORDER BY commit_count ... collect(commit_count)
        s == CHOOSE x \in Ordered(devs, {<<a, b>> \in devs \X devs :
                                            commit_count(g, a) < commit_count(g, b)}) : TRUE
        sorted_counts == [i \in 1..Len(s) |-> commit_count(g, s[i])]
        gini == gini_coefficient(sorted_counts)
        total_files == TotalFiles(g, repo_name)
    IN  {[top_contributor |-> t.developer,
          files_owned |-> t.file_count,
          total_files |-> total_files,
          ownership_ratio |-> <<t.file_count, total_files>>,
          knowledge_inequality |-> gini,
          distribution_type |->
              analytics_distribution_type(gini, t.file_count, total_files)] :
            t \in UNION {TopDevs(g, repo_name, top) :
                          top \in {x \in [FilesOf(g, repo_name) ->
                                        UNION {FileTopContributors(g, f) :
                                                f \in FilesOf(g, repo_name)}] :
                                      \A f \in FilesOf(g, repo_name) :
                                          x[f] \in FileTopContributors(g, f)}}}

\* return result.single().data(): with no record, None has no data()
analytics_knowledge_distribution(g, repo_name) ==
    IF FilesOf(g, repo_name) = {} \/ DevelopersOf(g, repo_name) = {}
    THEN {Raised}
    ELSE {Record(rec) : rec \in AnalyticsRecords(g, repo_name)}

(***************************************************************************)
(* GraphQueries.get_critical_files                                         *)
(***************************************************************************)
\* WITH f, count(DISTINCT d) as contributor_count: one row per file
CriticalFileRow(g, f) ==
    [file_path |-> f.path, filename |-> f.filename,
     contributors |-> Cardinality(Contributors(g, f))]

\* ORDER BY contributor_count
CriticalFileBefore(g, S) ==
    {<<a, b>> \in S \X S :
        Cardinality(Contributors(g, a)) < Cardinality(Contributors(g, b))}

get_critical_files(g, repo_name, limit) ==
    IF limit < 0 THEN {Raised}
    ELSE {Ok(Limit([i \in 1..Len(s) |-> CriticalFileRow(g, s[i])], limit)) :
            s \in Ordered(FilesOf(g, repo_name),
                          CriticalFileBefore(g, FilesOf(g, repo_name)))}

\* RepositoryAnalytics.get_file_contributor_count: the same query, no LIMIT
get_file_contributor_count(g, repo_name) ==
    {Ok([i \in 1..Len(s) |-> CriticalFileRow(g, s[i])]) :
        s \in Ordered(FilesOf(g, repo_name),
                      CriticalFileBefore(g, FilesOf(g, repo_name)))}

(***************************************************************************)
(* GraphQueries.get_developer_collaborations, and the same query without   *)
(* LIMIT in RepositoryAnalytics.get_developer_collaborations               *)
(***************************************************************************)
\* MATCH (c1)-[:ADDED|MODIFIED|DELETED]->(f:File)<-[:ADDED|MODIFIED|DELETED]-(c2)
\* with c1 committed by d1 and c2 by d2; the two edges of the pattern differ
shared_files(g, d1, d2) ==
    {f \in g.files :
        \E c1, c2 \in g.commits :
            /\ Rel("COMMITTED_BY", c1.id, d1.id) \in g.rels
            /\ Rel("COMMITTED_BY", c2.id, d2.id) \in g.rels
            /\ \E e1 \in ChangeRels(g, c1, f), e2 \in ChangeRels(g, c2, f) : e1 # e2}

\* WHERE id(d1) < id(d2) ... WITH d1, d2, count(DISTINCT f) as shared_files
\* WHERE shared_files > 0
CollaborationPairs(g, repo_name) ==
    {<<d1, d2>> \in g.devs \X g.devs :
        /\ \E r \in RepoNodes(g, repo_name) :
            /\ Rel("BELONGS_TO", d1.id, r.id) \in g.rels
            /\ Rel("BELONGS_TO", d2.id, r.id) \in g.rels
        /\ d1.id < d2.id
        /\ shared_files(g, d1, d2) # {}}

CollaborationRow(g, pair) ==
    [developer1 |-> pair[1].github, name1 |-> pair[1].name,
     developer2 |-> pair[2].github, name2 |-> pair[2].name,
     collaboration_strength |-> Cardinality(shared_files(g, pair[1], pair[2]))]

\* ORDER BY collaboration_strength DESC
CollaborationBefore(g, S) ==
    {<<a, b>> \in S \X S :
        Cardinality(shared_files(g, a[1], a[2]))
            > Cardinality(shared_files(g, b[1], b[2]))}

CollaborationLists(g, repo_name) ==
    {[i \in 1..Len(s) |-> CollaborationRow(g, s[i])] :
        s \in Ordered(CollaborationPairs(g, repo_name),
                      CollaborationBefore(g, CollaborationPairs(g, repo_name)))}

get_developer_collaborations(g, repo_name, limit) ==
    IF limit < 0 THEN {Raised}
    ELSE {Ok(Limit(rows, limit)) : rows \in CollaborationLists(g, repo_name)}

analytics_developer_collaborations(g, repo_name) ==
    {Ok(rows) : rows \in CollaborationLists(g, repo_name)}

(***************************************************************************)
(* analytics_controller.get_bus_factor_analysis.  Its three queries match  *)
(* every File with every Developer of the store, whatever repository they  *)
(* belong to.  After OPTIONAL MATCH (c)-[:COMMITTED_BY]->(d), the second   *)
(* OPTIONAL MATCH (c)-[...]->(f) introduces no variable: where it finds no *)
(* edge the row stays as it is, with c bound.                              *)
(***************************************************************************)
CommitsBy(g, d) == {c \in g.commits : Rel("COMMITTED_BY", c.id, d.id) \in g.rels}

RECURSIVE BusRows(_, _, _)
\* WITH f, d, count(c) as commits: one row per commit of d, one more for
\* each further change edge from the commit to f
BusRows(g, f, cs) ==
    IF cs = {} THEN 0
    ELSE LET c == CHOOSE x \in cs : TRUE
         IN  Max(1, Cardinality(ChangeRels(g, c, f))) + BusRows(g, f, cs \ {c})

bus_commits(g, f, d) == BusRows(g, f, CommitsBy(g, d))

\* size([c IN contributors WHERE c.commits > 0])
bus_contributor_count(g, f) ==
    Cardinality({d \in g.devs : bus_commits(g, f, d) > 0})

RECURSIVE BusSum(_, _)
BusSum(g, F) ==
    IF F = {} THEN 0
    ELSE LET f == CHOOSE x \in F : TRUE
         IN  bus_contributor_count(g, f) + BusSum(g, F \ {f})

\* RETURN avg(contributor_count): null when there is no row
average_contributors(g) ==
    IF g.files = {} \/ g.devs = {} THEN Null
    ELSE <<BusSum(g, g.files), Cardinality(g.files)>>

\* ORDER BY commits DESC ... collect(...)[0]: a developer with the most rows
bus_top_contributors(g, f) ==
    {d \in g.devs : \A e \in g.devs : bus_commits(g, f, e) <= bus_commits(g, f, d)}

HighRiskLimit == 3

\* size(collect(DISTINCT d)) as contributor_count WHERE contributor_count <= 2
HighRiskFiles(g) ==
    IF g.devs = {} \/ Cardinality(g.devs) > 2 THEN {} ELSE g.files

\* the rows all carry the same busFactor, so ORDER BY leaves them in any order
high_risk_files(g) ==
    UNION {{Limit(rows, HighRiskLimit) :
                rows \in {rs \in [1..Len(s) -> [path : {f.path : f \in g.files},
                                                 owner : {d.name : d \in g.devs},
                                                 busFactor : {Cardinality(g.devs)}]] :
                            \A i \in 1..Len(s) :
                                /\ rs[i].path = s[i].path
                                /\ \E d \in bus_top_contributors(g, s[i]) :
                                        rs[i].owner = d.name}} :
            s \in Perms(HighRiskFiles(g))}

\* WHERE f.path CONTAINS '/' WITH split(f.path, '/')[0] as module
ModuleFiles(g, module) == {f \in g.files : Len(f.path) > 1 /\ f.path[1] = module}

Modules(g) == {f.path[1] : f \in {x \in g.files : Len(x.path) > 1}}

\* avg(contributor_count) of a module, every file of which counts every
\* developer; collect(top_contributor.developer)[0]
ModuleRiskRows(g, module) ==
    {[module |-> <<"src", module>>,
      busFactor |-> <<Cardinality(g.devs), 1>>,
      owner |-> d.name] :
        d \in UNION {bus_top_contributors(g, f) : f \in ModuleFiles(g, module)}}

module_risks(g) ==
    IF g.devs = {} THEN {<<>>}
    ELSE UNION {{Limit(rows, HighRiskLimit) :
                    rows \in {rs \in [1..Len(s) ->
                                        UNION {ModuleRiskRows(g, m) : m \in Modules(g)}] :
                                \A i \in 1..Len(s) : rs[i] \in ModuleRiskRows(g, s[i])}} :
                s \in Perms(Modules(g))}

get_bus_factor_analysis(g) ==
    {Record([overallBusFactor |-> average_contributors(g),
             highRiskFiles |-> h, moduleRisks |-> m]) :
        h \in high_risk_files(g), m \in module_risks(g)}

(***************************************************************************)
(* A store access that fails raises in the caller.  fault names the access *)
(* of a call that fails ("none": every access is answered).                *)
(***************************************************************************)
NoFault == "none"

\* bus_factor = 2.4
DefaultBusFactor == <<12, 5>>

\* the accesses of get_bus_factor_analysis: session.run of each of the three
\* queries and the reading of each result
BusFactorFaults == {"run1", "single1", "run2", "rows2", "run3", "rows3"}

\* try: bus_factor = result.single()[...] except: bus_factor = 2.4; every
\* other failure reaches `except Exception` and becomes HTTP 500
bus_factor_analysis_under(g, fault) ==
    IF fault = NoFault THEN get_bus_factor_analysis(g)
    ELSE IF fault = "single1"
         THEN {Record([r.record EXCEPT !.overallBusFactor = DefaultBusFactor]) :
                r \in get_bus_factor_analysis(g)}
         ELSE {Raised}

(***************************************************************************)
(* analytics_controller.get_developer_profile                              *)
(***************************************************************************)
\* MATCH (d:Developer {github: $github}): the handle is matched in every
\* repository
ProfileNodes(g, github) == {d \in g.devs : d.github = github}

DefaultMetrics ==
    [codeOwnership |-> 0, busFactorContribution |-> 0,
     collaborationIndex |-> 0, impactScore |-> 0]

ProfileOf(d) ==
    [id |-> d.github, name |-> d.name, username |-> d.github, email |-> d.email,
     avatarUrl |-> <<"https://avatars.githubusercontent.com/u/", d.github>>,
     githubUrl |-> <<"https://github.com/", d.github>>,
     metrics |-> DefaultMetrics]

RECURSIVE CommitTotal(_, _)
\* count(c) over the rows (d, c)
CommitTotal(g, D) ==
    IF D = {} THEN 0
    ELSE LET d == CHOOSE x \in D : TRUE
         IN  Cardinality(CommitsBy(g, d)) + CommitTotal(g, D \ {d})

\* every timestamp of the model falls in one month
contribution_history(g, github) ==
    LET commits == CommitTotal(g, ProfileNodes(g, github))
    IN  IF commits = 0 THEN <<>>
        ELSE <<[month |-> "t", commits |-> commits,
                pullRequests |-> (3 * commits) \div 10,
                reviews |-> commits \div 2,
                issues |-> commits \div 5]>>

\* the rows (c, r) of one developer node and file
FileChanges(g, d, f) ==
    {e \in g.rels : /\ e.type \in ChangeTypes
                    /\ e.dst = f.id
                    /\ \E c \in CommitsBy(g, d) : c.id = e.src}

FileContributionGroups(g, github) ==
    {<<d, f>> \in ProfileNodes(g, github) \X g.files : FileChanges(g, d, f) # {}}

FileContributionRow(g, grp) ==
    LET changes == FileChanges(g, grp[1], grp[2])
    IN  [path |-> grp[2].path,
         commits |-> Cardinality(changes),
         linesAdded |-> 10 * Cardinality({e \in changes :
                                            e.type \in {"ADDED", "MODIFIED"}}),
         linesDeleted |-> 5 * Cardinality({e \in changes :
                                            e.type \in {"DELETED", "MODIFIED"}})]

ProfileLimit == 5

file_contributions(g, github) ==
    LET G == FileContributionGroups(g, github)
        before == {<<a, b>> \in G \X G :
                    Cardinality(FileChanges(g, a[1], a[2]))
                        > Cardinality(FileChanges(g, b[1], b[2]))}
    IN  {Limit([i \in 1..Len(s) |-> FileContributionRow(g, s[i])], ProfileLimit) :
            s \in Ordered(G, before)}

\* files that a commit of some node of the handle and a commit of other touch
CollaboratorFiles(g, github, other) ==
    {f \in g.files : /\ f \in Reachable(g, other)
                     /\ \E d \in ProfileNodes(g, github) \ {other} :
                            f \in Reachable(g, d)}

profile_collaborators(g, github) ==
    LET O == {o \in g.devs : CollaboratorFiles(g, github, o) # {}}
        before == {<<a, b>> \in O \X O :
                    Cardinality(CollaboratorFiles(g, github, a))
                        > Cardinality(CollaboratorFiles(g, github, b))}
    IN  {Limit([i \in 1..Len(s) |->
                    [id |-> s[i].github, name |-> s[i].name,
                     collaborationCount |->
                        Cardinality(CollaboratorFiles(g, github, s[i]))]],
               ProfileLimit) :
            s \in Ordered(O, before)}

\* the files of the repositories the node belongs to
OwnRepositoryFiles(g, d) ==
    {f \in g.files : \E r \in g.repos :
        /\ Rel("BELONGS_TO", d.id, r.id) \in g.rels
        /\ Rel("BELONGS_TO", f.id, r.id) \in g.rels}

\* count(DISTINCT f) counts the files of MATCH (f:File), every file of the
\* store; the metrics query has a row for each node with a file in its
\* repositories
MetricsRows(g, github) ==
    {[codeOwnership |-> (100 * Cardinality(g.files))
                            \div Cardinality(OwnRepositoryFiles(g, d)),
      busFactorContribution |-> Cardinality(g.files),
      collaborationIndex |-> 8 + (Cardinality(CommitsBy(g, d)) \div 100),
      impactScore |-> 70 + (Cardinality(CommitsBy(g, d)) \div 10)] :
        d \in {x \in ProfileNodes(g, github) : OwnRepositoryFiles(g, x) # {}}}

ProfileFaults ==
    {"run_profile", "single_profile", "run_history", "rows_history",
     "run_files", "rows_files", "run_collaborators", "rows_collaborators",
     "run_metrics", "single_metrics"}

\* try: metrics = metrics_result.single()["metrics"] except: pass keeps the
\* default metrics, when there is no row and when the read fails alike
get_developer_profile(g, github, fault) ==
    IF ProfileNodes(g, github) = {} \/ fault \in ProfileFaults \ {"single_metrics"}
    THEN {Raised}
    ELSE {Record([profile |-> [ProfileOf(d) EXCEPT !.metrics = metrics],
                  contributionHistory |-> contribution_history(g, github),
                  fileContributions |-> files,
                  collaborators |-> others]) :
            d \in ProfileNodes(g, github),
            metrics \in IF fault = "single_metrics" \/ MetricsRows(g, github) = {}
                        THEN {DefaultMetrics} ELSE MetricsRows(g, github),
            files \in file_contributions(g, github),
            others \in profile_collaborators(g, github)}

(***************************************************************************)
(* Github_Api_Controller.get_repo_id over the table repositories.  A row   *)
(* is [id, name]: owner and repo_name are the two parts of the name.       *)
(***************************************************************************)
RepositoryRows(t, repo_name) == {row \in t.repositories : row.name = repo_name}

RepoIdFaults == {"connect", "select", "insert"}

\* return 1  # Fallback to placeholder value
FallbackRepoId == 1

\* the table after the call, and the id the call returns; cursor.fetchone()
\* gives one of the rows found
get_repo_id(t, repo_name, fault) ==
    IF fault \in RepoIdFaults THEN {[db |-> t, id |-> FallbackRepoId]}
    ELSE IF RepositoryRows(t, repo_name) # {}
         THEN {[db |-> t, id |-> row.id] : row \in RepositoryRows(t, repo_name)}
         ELSE {[db |-> [t EXCEPT !.repositories =
                                    @ \cup {[id |-> t.next, name |-> repo_name]},
                                 !.next = @ + 1],
                id |-> t.next]}

(***************************************************************************)
(* The endpoint .../summary: the top three of each role and the knowledge  *)
(* distribution; any exception of the four calls becomes a 500.            *)
(***************************************************************************)
SummaryLimit == 3

HttpRecord(code, rec) == [status |-> "http", code |-> code, record |-> rec]

repo_summary(g, repo_name) ==
    {IF jacks.status = "ok" /\ mavens.status = "ok" /\ connectors.status = "ok"
     THEN HttpRecord(200,
            [repository |-> repo_name,
             knowledge_distribution |-> knowledge_dist.record.distribution_type,
             top_contributor |-> knowledge_dist.record.top_contributor,
             top_jacks |-> [i \in 1..Len(jacks.rows) |->
                             [github |-> jacks.rows[i].github,
                              knowledge_breadth |-> jacks.rows[i].knowledge_breadth]],
             top_mavens |-> [i \in 1..Len(mavens.rows) |->
                              [github |-> mavens.rows[i].github,
                               mavenness |-> mavens.rows[i].mavenness]],
             top_connectors |-> [i \in 1..Len(connectors.rows) |->
                                  [github |-> connectors.rows[i].github,
                                   centrality |->
                                      connectors.rows[i].betweenness_centrality]]])
     ELSE HttpRecord(500, [detail |-> "Error retrieving repository summary"]) :
        jacks \in get_jacks(g, repo_name, SummaryLimit),
        mavens \in get_mavens(g, repo_name, SummaryLimit),
        connectors \in get_connectors(g, repo_name, SummaryLimit),
        knowledge_dist \in get_knowledge_distribution(g, repo_name)}

NoResult == [status |-> "none", rows |-> <<>>]
NoOp == [kind |-> "none"]
Idle == [pc |-> "idle"]
Workers == {"w1", "w2"}
Rank(w) == IF w = "w1" THEN 1 ELSE 2

\* min_file_coverage: float = 0.3
MinCoverageNum == 3
MinCoverageDen == 10
MinCoverages == {<<MinCoverageNum, MinCoverageDen>>, <<1, 1>>}

\* a call without repository information
NoInfoFact == [(CHOOSE f \in Facts : TRUE) EXCEPT !.repository_info = NoInfo]
AllFacts == Facts \cup {NoInfoFact}

NoRerun == [batch |-> <<>>, replayed |-> 0, once |-> EmptyGraph]

\* the tables crud.py and get_repo_id write, empty; next: the AUTO_INCREMENT id
EmptyTables ==
    [repositories |-> {}, commits |-> {}, contributors |-> {},
     developer_contributions |-> {}, next |-> 1]

Callers == {"c1", "c2"}

Init ==
    /\ graph = EmptyGraph
    /\ ingested = 0
    /\ op = NoOp
    /\ result = NoResult
    /\ workers = [w \in Workers |-> Idle]
    /\ rerun = NoRerun
    /\ db = EmptyTables
    /\ catalog = {}
    /\ calls = [c \in Callers |-> Idle]

(***************************************************************************)
(* Spec: one call at a time.  fetch_commits awaits process_commit_data for *)
(* each commit; the analytic endpoints call one query and return.          *)
(***************************************************************************)
Ingest(f) ==
    /\ ingested < MaxIngest
    /\ result = NoResult
    /\ rerun.batch = <<>>
    /\ graph' = process_commit_data(graph, f)
    /\ ingested' = ingested + 1
    /\ op' = [kind |-> "ingest", repo |-> f.repository_info.name]
    /\ result' = NoResult
    /\ UNCHANGED <<workers, rerun, db, catalog, calls>>

IngestFact == \E f \in AllFacts : Ingest(f)

Jacks ==
    /\ result = NoResult
    /\ \E repo \in Repos, limit \in Limits :
        /\ result' \in get_jacks(graph, repo, limit)
        /\ op' = [kind |-> "get_jacks", repo |-> repo, limit |-> limit]
        /\ UNCHANGED <<graph, ingested, workers, rerun, db, catalog, calls>>

JackDevelopers ==
    /\ result = NoResult
    /\ \E repo \in Repos, min \in MinCoverages :
        /\ result' \in get_jack_developers(graph, repo, min)
        /\ op' = [kind |-> "get_jack_developers", repo |-> repo, min |-> min]
        /\ UNCHANGED <<graph, ingested, workers, rerun, db, catalog, calls>>

Mavens ==
    /\ result = NoResult
    /\ \E repo \in Repos, limit \in Limits :
        /\ result' \in get_mavens(graph, repo, limit)
        /\ op' = [kind |-> "get_mavens", repo |-> repo, limit |-> limit]
        /\ UNCHANGED <<graph, ingested, workers, rerun, db, catalog, calls>>

\* the handler returns: its caller has the result
Return ==
    /\ result # NoResult
    /\ result' = NoResult
    /\ op' = NoOp
    /\ UNCHANGED <<graph, ingested, workers, rerun, db, catalog, calls>>

Next ==
    \/ IngestFact
    \/ Jacks
    \/ JackDevelopers
    \/ Mavens
    \/ Return

Spec == Init /\ [][Next]_vars

(***************************************************************************)
(* SpecBatch: a batch of commit facts is ingested on top of whatever was   *)
(* ingested before it, and then the same batch is ingested again, as two   *)
(* runs of the loop of fetch_commits over the same commits do.             *)
(***************************************************************************)
BatchIngest ==
    \E f \in AllFacts :
        /\ ingested < MaxIngest
        /\ rerun.replayed = 0
        /\ graph' = process_commit_data(graph, f)
        /\ ingested' = ingested + 1
        /\ op' = [kind |-> "ingest", repo |-> f.repository_info.name]
        /\ rerun' = [rerun EXCEPT !.batch = Append(@, f)]
        /\ UNCHANGED <<result, workers, db, catalog, calls>>

Replay ==
    /\ rerun.replayed < Len(rerun.batch)
    /\ LET f == rerun.batch[rerun.replayed + 1]
       IN  /\ graph' = process_commit_data(graph, f)
           /\ op' = [kind |-> "ingest", repo |-> f.repository_info.name]
    /\ rerun' = [rerun EXCEPT !.replayed = @ + 1,
                              !.once = IF rerun.replayed = 0 THEN graph ELSE @]
    /\ UNCHANGED <<ingested, result, workers, db, catalog, calls>>

NextBatch ==
    \/ IngestFact
    \/ BatchIngest
    \/ Replay

SpecBatch == Init /\ [][NextBatch]_vars

(***************************************************************************)
(* SpecConc: process_commit_data hands _process_commit_sync to the default *)
(* executor, so two requests run it on two threads.  Every session.run is  *)
(* its own transaction; the match and the create of a node MERGE are two   *)
(* steps of it, and another thread's steps may come between them.          *)
(***************************************************************************)
RECURSIVE Entries(_, _)
Entries(file_list, relation_type) ==
    IF file_list = <<>> THEN <<>>
    ELSE <<[path |-> Head(file_list), type |-> relation_type]>>
            \o Entries(Tail(file_list), relation_type)

\* the file statements of one commit, in the order the three loops run them
FileWork(f) ==
    Entries(f.added_files, "ADDED") \o Entries(f.modified_files, "MODIFIED")
        \o Entries(f.deleted_files, "DELETED")

At(w, pc, phase) == workers[w].pc = pc /\ workers[w].phase = phase

Goto(w, pc, phase, seen) ==
    workers' = [workers EXCEPT ![w].pc = pc, ![w].phase = phase, ![w].seen = seen]

AfterCommit(w) == IF workers[w].todo = <<>> THEN "close" ELSE "file"

\* the requests that race: commits of one repository
ConcFacts ==
    {f \in Facts : /\ f.repository_info.name = "o/r1"
                    /\ f.author_github \in {"", "al"}
                    /\ f.author_name = "Al"}

\* the executor hands a call to its first free thread
FirstFree(w) == \A v \in Workers : workers[v].pc = "idle" => Rank(w) <= Rank(v)

Submit(w) ==
    \E f \in ConcFacts :
        /\ workers[w].pc = "idle"
        /\ FirstFree(w)
        /\ ingested < MaxIngest
        /\ ingested' = ingested + 1
        /\ workers' = [workers EXCEPT ![w] =
                [pc |-> "repository", phase |-> "match", seen |-> {},
                 fact |-> f, todo |-> FileWork(f)]]
        /\ UNCHANGED <<graph, op, result, rerun, db, catalog, calls>>

RepositoryMatch(w) ==
    /\ At(w, "repository", "match")
    /\ Goto(w, "repository", "write",
            match_repository(graph, workers[w].fact.repository_info.name))
    /\ UNCHANGED <<graph, ingested, op, result, rerun, db, catalog, calls>>

RepositoryWrite(w) ==
    /\ At(w, "repository", "write")
    /\ graph' = create_repository_tx(graph, workers[w].fact.repository_info,
                                     workers[w].seen)
    /\ Goto(w, "developer", "match", {})
    /\ UNCHANGED <<ingested, op, result, rerun, db, catalog, calls>>

DeveloperMatch(w) ==
    /\ At(w, "developer", "match")
    /\ Goto(w, "developer", "write",
            match_developer(graph, author_of(workers[w].fact).github,
                            workers[w].fact.repository_info.name))
    /\ UNCHANGED <<graph, ingested, op, result, rerun, db, catalog, calls>>

DeveloperWrite(w) ==
    /\ At(w, "developer", "write")
    /\ graph' = create_developer_tx(graph, author_of(workers[w].fact),
                                    workers[w].fact.repository_info.name,
                                    workers[w].seen)
    /\ Goto(w, "commit", "match", {})
    /\ UNCHANGED <<ingested, op, result, rerun, db, catalog, calls>>

CommitMatch(w) ==
    /\ At(w, "commit", "match")
    /\ Goto(w, "commit", "write", match_commit(graph, workers[w].fact.sha))
    /\ UNCHANGED <<graph, ingested, op, result, rerun, db, catalog, calls>>

CommitWrite(w) ==
    /\ At(w, "commit", "write")
    /\ graph' = create_commit_tx(graph, commit_data_of(workers[w].fact),
                                 workers[w].fact.repository_info.name,
                                 workers[w].seen)
    /\ Goto(w, "link", "write", {})
    /\ UNCHANGED <<ingested, op, result, rerun, db, catalog, calls>>

Link(w) ==
    /\ At(w, "link", "write")
    /\ graph' = link_commit_to_developer(graph, commit_data_of(workers[w].fact),
                                         workers[w].fact.repository_info.name)
    /\ Goto(w, AfterCommit(w), "match", {})
    /\ UNCHANGED <<ingested, op, result, rerun, db, catalog, calls>>

FileMatch(w) ==
    /\ At(w, "file", "match")
    /\ Goto(w, "file", "write",
            match_file(graph, Head(workers[w].todo).path,
                       workers[w].fact.repository_info.name))
    /\ UNCHANGED <<graph, ingested, op, result, rerun, db, catalog, calls>>

FileWrite(w) ==
    /\ At(w, "file", "write")
    /\ graph' = file_relationship_tx(graph, workers[w].fact.sha,
                                     Head(workers[w].todo).path,
                                     Head(workers[w].todo).type,
                                     workers[w].fact.repository_info.name,
                                     workers[w].seen)
    /\ workers' = [workers EXCEPT
            ![w].todo = Tail(@),
            ![w].pc = IF Tail(workers[w].todo) = <<>> THEN "close" ELSE "file",
            ![w].phase = "match",
            ![w].seen = {}]
    /\ UNCHANGED <<ingested, op, result, rerun, db, catalog, calls>>

\* finally: driver.close(); the call returns
Close(w) ==
    /\ workers[w].pc = "close"
    /\ workers' = [workers EXCEPT ![w] = Idle]
    /\ UNCHANGED <<graph, ingested, op, result, rerun, db, catalog, calls>>

NextConc ==
    \E w \in Workers :
        \/ Submit(w)
        \/ RepositoryMatch(w)
        \/ RepositoryWrite(w)
        \/ DeveloperMatch(w)
        \/ DeveloperWrite(w)
        \/ CommitMatch(w)
        \/ CommitWrite(w)
        \/ Link(w)
        \/ FileMatch(w)
        \/ FileWrite(w)
        \/ Close(w)

SpecConc == Init /\ [][NextConc]_vars

(***************************************************************************)
(* SpecInsights: one call at a time, as in Spec, of the other analytic     *)
(* operations: connectors, replacements, knowledge distribution,           *)
(* collaborations, critical files and the bus-factor analysis.             *)
(***************************************************************************)
Connectors ==
    /\ result = NoResult
    /\ \E repo \in Repos, limit \in Limits :
        /\ result' \in get_connectors(graph, repo, limit)
        /\ op' = [kind |-> "get_connectors", repo |-> repo, limit |-> limit]
        /\ UNCHANGED <<graph, ingested, workers, rerun, db, catalog, calls>>

\* the handles a caller may name: those ingestion can have stored
Handles == {author_of(f).github : f \in Facts}

\* GraphQueries.get_replacements called directly
Replacements ==
    /\ result = NoResult
    /\ \E repo \in Repos, github \in Handles, limit \in Limits :
        /\ result' \in get_replacements(graph, repo, github, limit)
        /\ op' = [kind |-> "get_replacements", repo |-> repo,
                  github |-> github, limit |-> limit]
        /\ UNCHANGED <<graph, ingested, workers, rerun, db, catalog, calls>>

\* GET /api/repos/{owner}/{repo}/developers/{github}/replacements
ReplacementsEndpoint ==
    /\ result = NoResult
    /\ \E repo \in Repos, github \in Handles, limit \in Limits :
        /\ result' \in {replacements_endpoint(r) :
                            r \in get_replacements(graph, repo, github, limit)}
        /\ op' = [kind |-> "replacements_endpoint", repo |-> repo,
                  github |-> github, limit |-> limit]
        /\ UNCHANGED <<graph, ingested, workers, rerun, db, catalog, calls>>

ReplacementRecommendations ==
    /\ result = NoResult
    /\ \E repo \in Repos, github \in Handles :
        /\ result' \in get_replacement_recommendations(graph, repo, github)
        /\ op' = [kind |-> "get_replacement_recommendations", repo |-> repo,
                  github |-> github]
        /\ UNCHANGED <<graph, ingested, workers, rerun, db, catalog, calls>>

NextInsights ==
    \/ IngestFact
    \/ Connectors
    \/ Replacements
    \/ ReplacementsEndpoint
    \/ ReplacementRecommendations
    \/ Return

SpecInsights == Init /\ [][NextInsights]_vars

(***************************************************************************)
(* SpecDistribution: one call at a time of the operations that summarise   *)
(* the whole repository.                                                   *)
(***************************************************************************)
KnowledgeDistribution ==
    /\ result = NoResult
    /\ \E repo \in Repos :
        /\ result' \in get_knowledge_distribution(graph, repo)
        /\ op' = [kind |-> "get_knowledge_distribution", repo |-> repo]
        /\ UNCHANGED <<graph, ingested, workers, rerun, db, catalog, calls>>

AnalyticsKnowledgeDistribution ==
    /\ result = NoResult
    /\ \E repo \in Repos :
        /\ result' \in analytics_knowledge_distribution(graph, repo)
        /\ op' = [kind |-> "analytics_knowledge_distribution", repo |-> repo]
        /\ UNCHANGED <<graph, ingested, workers, rerun, db, catalog, calls>>

\* GET /api/repos/{owner}/{repo}/summary
RepoSummary ==
    /\ result = NoResult
    /\ \E repo \in Repos :
        /\ result' \in repo_summary(graph, repo)
        /\ op' = [kind |-> "get_repo_summary", repo |-> repo]
        /\ UNCHANGED <<graph, ingested, workers, rerun, db, catalog, calls>>

\* GET /api/repos/{owner}/{repo}/critical-files
CriticalFiles ==
    /\ result = NoResult
    /\ \E repo \in Repos, limit \in Limits :
        /\ result' \in get_critical_files(graph, repo, limit)
        /\ op' = [kind |-> "get_critical_files", repo |-> repo, limit |-> limit]
        /\ UNCHANGED <<graph, ingested, workers, rerun, db, catalog, calls>>

FileContributorCount ==
    /\ result = NoResult
    /\ \E repo \in Repos :
        /\ result' \in get_file_contributor_count(graph, repo)
        /\ op' = [kind |-> "get_file_contributor_count", repo |-> repo]
        /\ UNCHANGED <<graph, ingested, workers, rerun, db, catalog, calls>>

\* GET /bus-factor-analysis
BusFactorAnalysis ==
    /\ result = NoResult
    /\ result' \in get_bus_factor_analysis(graph)
    /\ op' = [kind |-> "get_bus_factor_analysis"]
    /\ UNCHANGED <<graph, ingested, workers, rerun, db, catalog, calls>>

NextDistribution ==
    \/ IngestFact
    \/ KnowledgeDistribution
    \/ AnalyticsKnowledgeDistribution
    \/ RepoSummary
    \/ CriticalFiles
    \/ FileContributorCount
    \/ BusFactorAnalysis
    \/ Return

SpecDistribution == Init /\ [][NextDistribution]_vars

(***************************************************************************)
(* SpecTeam: a longer history of one repository, two developers pushing    *)
(* commits, read by the collaboration queries.                             *)
(***************************************************************************)
MaxTeamIngest == 3      \* process_commit_data calls per behaviour of SpecTeam

TeamFacts ==
    {f \in Facts : /\ f.repository_info.name = "o/r1"
                    /\ f.author_github \in {"al", "bo"}
                    /\ f.author_name = "Al"}

\* fetch_commits awaits process_commit_data for each commit
TeamIngest ==
    \E f \in TeamFacts :
        /\ ingested < MaxTeamIngest
        /\ result = NoResult
        /\ graph' = process_commit_data(graph, f)
        /\ ingested' = ingested + 1
        /\ op' = [kind |-> "ingest", repo |-> f.repository_info.name]
        /\ result' = NoResult
        /\ UNCHANGED <<workers, rerun, db, catalog, calls>>

\* GET /api/repos/{owner}/{repo}/collaborations
Collaborations ==
    /\ result = NoResult
    /\ \E repo \in Repos, limit \in Limits :
        /\ result' \in get_developer_collaborations(graph, repo, limit)
        /\ op' = [kind |-> "get_developer_collaborations", repo |-> repo,
                  limit |-> limit]
        /\ UNCHANGED <<graph, ingested, workers, rerun, db, catalog, calls>>

AnalyticsCollaborations ==
    /\ result = NoResult
    /\ \E repo \in Repos :
        /\ result' \in analytics_developer_collaborations(graph, repo)
        /\ op' = [kind |-> "analytics_developer_collaborations", repo |-> repo]
        /\ UNCHANGED <<graph, ingested, workers, rerun, db, catalog, calls>>

NextTeam ==
    \/ TeamIngest
    \/ Collaborations
    \/ AnalyticsCollaborations
    \/ Return

SpecTeam == Init /\ [][NextTeam]_vars

(***************************************************************************)
(* SpecFaults: the calls that catch a failing store access, each with the  *)
(* access that fails.                                                      *)
(***************************************************************************)
BusFactorAnalysisUnder ==
    /\ result = NoResult
    /\ \E fault \in BusFactorFaults \cup {NoFault} :
        /\ result' \in bus_factor_analysis_under(graph, fault)
        /\ op' = [kind |-> "get_bus_factor_analysis", fault |-> fault]
    /\ UNCHANGED <<graph, ingested, workers, rerun, db, catalog, calls>>

\* GET /developer/{developer_id}
DeveloperProfile ==
    /\ result = NoResult
    /\ \E github \in Handles, fault \in ProfileFaults \cup {NoFault} :
        /\ result' \in get_developer_profile(graph, github, fault)
        /\ op' = [kind |-> "get_developer_profile", github |-> github,
                  fault |-> fault]
    /\ UNCHANGED <<graph, ingested, workers, rerun, db, catalog, calls>>

RepoId ==
    /\ result = NoResult
    /\ \E repo \in Repos, fault \in RepoIdFaults \cup {NoFault} :
        \E r \in get_repo_id(db, repo, fault) :
            /\ db' = r.db
            /\ result' = [status |-> "ok", id |-> r.id]
            /\ op' = [kind |-> "get_repo_id", repo |-> repo, fault |-> fault]
    /\ UNCHANGED <<graph, ingested, workers, rerun, catalog, calls>>

NextFaults ==
    \/ TeamIngest
    \/ BusFactorAnalysisUnder
    \/ DeveloperProfile
    \/ RepoId
    \/ Return

SpecFaults == Init /\ [][NextFaults]_vars

(***************************************************************************)
(* SpecMid: analytic queries on the event loop while executor threads are  *)
(* between two store statements of _process_commit_sync.  The caller keeps *)
(* what the query returned.                                                *)
(***************************************************************************)
Ingesting == \E w \in Workers : workers[w] # Idle

\* the commits under ingestion: two developers modifying one file
MidFacts ==
    {f \in ConcFacts : /\ f.added_files = <<>>
                       /\ f.deleted_files = <<>>
                       /\ f.modified_files \in {<<>>, << <<"a">> >>}}

MidSubmit(w) ==
    \E f \in MidFacts :
        /\ workers[w].pc = "idle"
        /\ FirstFree(w)
        /\ ingested < MaxIngest
        /\ ingested' = ingested + 1
        /\ workers' = [workers EXCEPT ![w] =
                [pc |-> "repository", phase |-> "match", seen |-> {},
                 fact |-> f, todo |-> FileWork(f)]]
        /\ UNCHANGED <<graph, op, result, rerun, db, catalog, calls>>

MidJacks ==
    /\ result = NoResult
    /\ Ingesting
    /\ \E repo \in {"o/r1"} :
        /\ result' \in get_jacks(graph, repo, MaxLimit)
        /\ op' = [kind |-> "get_jacks", repo |-> repo, limit |-> MaxLimit]
    /\ UNCHANGED <<graph, ingested, workers, rerun, db, catalog, calls>>

MidCriticalFiles ==
    /\ result = NoResult
    /\ Ingesting
    /\ \E repo \in {"o/r1"} :
        /\ result' \in get_critical_files(graph, repo, MaxLimit)
        /\ op' = [kind |-> "get_critical_files", repo |-> repo, limit |-> MaxLimit]
    /\ UNCHANGED <<graph, ingested, workers, rerun, db, catalog, calls>>

MidCollaborations ==
    /\ result = NoResult
    /\ Ingesting
    /\ \E repo \in {"o/r1"} :
        /\ result' \in get_developer_collaborations(graph, repo, MaxLimit)
        /\ op' = [kind |-> "get_developer_collaborations", repo |-> repo,
                  limit |-> MaxLimit]
    /\ UNCHANGED <<graph, ingested, workers, rerun, db, catalog, calls>>

NextMid ==
    \/ \E w \in Workers :
        \/ MidSubmit(w)
        \/ RepositoryMatch(w)
        \/ RepositoryWrite(w)
        \/ DeveloperMatch(w)
        \/ DeveloperWrite(w)
        \/ CommitMatch(w)
        \/ CommitWrite(w)
        \/ Link(w)
        \/ FileMatch(w)
        \/ FileWrite(w)
        \/ Close(w)
    \/ MidJacks
    \/ MidCriticalFiles
    \/ MidCollaborations
    \/ Return

SpecMid == Init /\ [][NextMid]_vars

(***************************************************************************)
(* SpecRead: get_mavens, query by query, on the event loop while one       *)
(* executor thread ingests.  Every session.run of either side is its own   *)
(* auto-commit transaction; seen collects the states the store has been in *)
(* since the call began.                                                   *)
(***************************************************************************)
\* the statements _process_commit_sync runs for one commit fact
StatementCount(f) == 4 + Len(FileWork(f))

Statement(g, f, k) ==
    LET repo_name == f.repository_info.name
    IN  CASE k = 1 -> create_repository(g, f.repository_info)
          [] k = 2 -> create_developer(g, author_of(f), repo_name)
          [] k = 3 -> create_commit(g, commit_data_of(f), repo_name)
          [] k = 4 -> link_commit_to_developer(g, commit_data_of(f), repo_name)
          [] OTHER -> file_relationship_tx(g, f.sha, FileWork(f)[k - 4].path,
                                           FileWork(f)[k - 4].type, repo_name,
                                           match_file(g, FileWork(f)[k - 4].path,
                                                      repo_name))

ReadSubmit ==
    \E f \in TeamFacts :
        /\ workers["w1"].pc = "idle"
        /\ ingested < MaxIngest
        /\ ingested' = ingested + 1
        /\ workers' = [workers EXCEPT !["w1"] =
                [pc |-> "statement", fact |-> f, done |-> 0]]
        /\ UNCHANGED <<graph, op, result, rerun, db, catalog, calls>>

ReadStatement ==
    /\ workers["w1"].pc = "statement"
    /\ LET f == workers["w1"].fact
           k == workers["w1"].done + 1
       IN  /\ graph' = Statement(graph, f, k)
           /\ workers' = [workers EXCEPT !["w1"] =
                   IF k = StatementCount(f) THEN Idle ELSE [@ EXCEPT !.done = k]]
    /\ calls' = [c \in Callers |->
                    IF calls[c].pc = "idle" THEN calls[c]
                    ELSE [calls[c] EXCEPT !.seen = @ \cup {graph'}]]
    /\ UNCHANGED <<ingested, op, result, rerun, db, catalog>>

\* maven_results.sort(key=mavenness, reverse=True): stable
SortedMavens(rows) ==
    LET n == Len(rows)
        p == CHOOSE q \in Perms(1..n) :
                \A i, j \in 1..n : i < j =>
                    \/ RatLess(rows[q[j]].mavenness, rows[q[i]].mavenness)
                    \/ /\ RatEq(rows[q[j]].mavenness, rows[q[i]].mavenness)
                       /\ q[i] < q[j]
    IN  [i \in 1..n |-> rows[p[i]]]

MavensDone(c, rows) ==
    /\ result' = Ok(Slice(SortedMavens(rows), calls[c].limit))
    /\ op' = [kind |-> "get_mavens", repo |-> calls[c].repo,
              limit |-> calls[c].limit, seen |-> calls[c].seen]
    /\ calls' = [calls EXCEPT ![c] = Idle]

\* the first query, and dev_to_files in the order its rows arrive
MavensFiles(c) ==
    /\ \A b \in Callers : calls[b].pc = "idle"
    /\ result = NoResult
    /\ \E limit \in Limits :
        LET repo_name == "o/r1"
            githubs == {GithubOf(graph, row.by.dst) :
                            row \in CriticalRows(graph, repo_name)}
        IN  \E order \in Perms(githubs) :
                calls' = [calls EXCEPT ![c] =
                    [pc |-> "total", repo |-> repo_name, limit |-> limit,
                     order |-> order,
                     files |-> [gh \in githubs |->
                         Cardinality(dev_to_files(graph, repo_name, gh))],
                     total_files |-> 0, maven_results |-> <<>>,
                     seen |-> {graph}]]
    /\ UNCHANGED <<graph, ingested, op, result, workers, rerun, db, catalog>>

\* the file count query
MavensTotal(c) ==
    /\ calls[c].pc = "total"
    /\ IF calls[c].order = <<>>
       THEN MavensDone(c, <<>>)
       ELSE /\ calls' = [calls EXCEPT
                    ![c].pc = "details",
                    ![c].total_files = TotalFiles(graph, calls[c].repo)]
            /\ UNCHANGED <<op, result>>
    /\ UNCHANGED <<graph, ingested, workers, rerun, db, catalog>>

\* one pass of the loop over dev_to_files: the details query and the row
MavensDetails(c) ==
    /\ calls[c].pc = "details"
    /\ LET github == Head(calls[c].order)
           rare_files_count == calls[c].files[github]
       IN  IF calls[c].total_files = 0
           THEN /\ result' = Raised
                /\ op' = [kind |-> "get_mavens", repo |-> calls[c].repo,
                          limit |-> calls[c].limit, seen |-> calls[c].seen]
                /\ calls' = [calls EXCEPT ![c] = Idle]
           ELSE \E det \in DevDetails(graph, calls[c].repo, github) :
                  LET rows == Append(calls[c].maven_results,
                                [github |-> github, name |-> det.name,
                                 email |-> det.email,
                                 rare_files_count |-> rare_files_count,
                                 mavenness |-> <<rare_files_count,
                                                 calls[c].total_files>>])
                  IN  IF Tail(calls[c].order) = <<>>
                      THEN MavensDone(c, rows)
                      ELSE /\ calls' = [calls EXCEPT
                                   ![c].order = Tail(@),
                                   ![c].maven_results = rows]
                           /\ UNCHANGED <<op, result>>
    /\ UNCHANGED <<graph, ingested, workers, rerun, db, catalog>>

NextRead ==
    \/ ReadSubmit
    \/ ReadStatement
    \/ \E c \in Callers :
        \/ MavensFiles(c)
        \/ MavensTotal(c)
        \/ MavensDetails(c)
    \/ Return

SpecRead == Init /\ [][NextRead]_vars

(***************************************************************************)
(* RepositoryAnalytics.get_connector_developers: three statements, each    *)
(* its own transaction: project the named graph, stream the betweenness    *)
(* scores, drop the named graph.                                           *)
(***************************************************************************)
ProjectionName == "file_collaboration"

\* CALL gds.graph.project.cypher('file_collaboration', nodes, relationships)
project_cypher(g, repo_name) ==
    [name |-> ProjectionName,
     nodes |-> {d.id : d \in DevelopersOf(g, repo_name)},
     edges |-> {<<p[1].id, p[2].id>> :
                    p \in {q \in DevelopersOf(g, repo_name)
                                    \X DevelopersOf(g, repo_name) :
                              /\ q[1].id < q[2].id
                              /\ shared_files(g, q[1], q[2]) # {}}}]

Projections(cat) == {p \in cat : p.name = ProjectionName}

\* the directed paths of the projection from s to t
ProjectionPaths(p, s, t) ==
    {path \in UNION {[1..n -> p.nodes] : n \in 2..Cardinality(p.nodes)} :
        /\ path[1] = s
        /\ path[Len(path)] = t
        /\ \A i \in 1..(Len(path) - 1) : <<path[i], path[i + 1]>> \in p.edges}

ShortestPaths(p, s, t) ==
    {path \in ProjectionPaths(p, s, t) :
        \A other \in ProjectionPaths(p, s, t) : Len(path) <= Len(other)}

RatAdd(x, y) == <<x[1] * y[2] + y[1] * x[2], x[2] * y[2]>>

RECURSIVE PairSum(_, _, _)
\* the sum over the pairs <<s, t>> of the share of shortest paths through v
PairSum(p, v, pairs) ==
    IF pairs = {} THEN <<0, 1>>
    ELSE LET st == CHOOSE x \in pairs : TRUE
             all == ShortestPaths(p, st[1], st[2])
             through == {path \in all :
                            \E i \in 2..(Len(path) - 1) : path[i] = v}
         IN  RatAdd(<<Cardinality(through), Cardinality(all)>>,
                    PairSum(p, v, pairs \ {st}))

\* gds.betweenness: YIELD nodeId, score
betweenness(p, v) ==
    PairSum(p, v, {st \in p.nodes \X p.nodes :
                      /\ st[1] # v /\ st[2] # v /\ st[1] # st[2]
                      /\ ShortestPaths(p, st[1], st[2]) # {}})

\* WITH gds.util.asNode(nodeId) AS developer, score
\* WHERE developer.repository = $repo_name ... ORDER BY betweenness_centrality DESC
betweenness_stream(g, p, repo_name) ==
    LET developers == {d \in g.devs : d.id \in p.nodes /\ d.repository = repo_name}
        row(d) == [github |-> d.github, name |-> d.name, email |-> d.email,
                   betweenness_centrality |-> betweenness(p, d.id)]
        before == {<<a, b>> \in developers \X developers :
                      RatLess(betweenness(p, b.id), betweenness(p, a.id))}
    IN  {[i \in 1..Len(s) |-> row(s[i])] : s \in Ordered(developers, before)}

\* the call on a store nothing else touches, its catalog without the name
get_connector_developers(g, repo_name) ==
    {Ok(rows) : rows \in betweenness_stream(g, project_cypher(g, repo_name),
                                            repo_name)}

ConnectorsOp(repo_name, fault, before) ==
    [kind |-> "get_connector_developers", repo |-> repo_name, fault |-> fault,
     graph |-> before.graph, catalog |-> before.catalog]

\* session.run(CALL gds.graph.project.cypher ...): the procedure refuses a
\* name the catalog holds; the inner queries name $repo_name, for which the
\* call hands the procedure no parameters map, and the store may refuse them
ConnectorsProject(c, fault) ==
    /\ calls[c].pc = "idle"
    /\ result = NoResult
    /\ \E repo_name \in Repos :
        LET before == [graph |-> graph, catalog |-> catalog]
        IN  IF fault = "project" \/ Projections(catalog) # {}
            THEN /\ result' = Raised
                 /\ op' = ConnectorsOp(repo_name,
                            IF fault = "project" THEN fault ELSE "exists", before)
                 /\ UNCHANGED <<catalog, calls>>
            ELSE /\ catalog' = catalog \cup {project_cypher(graph, repo_name)}
                 /\ calls' = [calls EXCEPT ![c] =
                        [pc |-> "stream", repo |-> repo_name, before |-> before]]
                 /\ UNCHANGED <<op, result>>
    /\ UNCHANGED <<graph, ingested, workers, rerun, db>>

\* session.run(CALL gds.betweenness.stream ...): an exception leaves the
\* function before the drop
ConnectorsStream(c, fault) ==
    /\ calls[c].pc = "stream"
    /\ result = NoResult
    /\ IF fault = "stream" \/ Projections(catalog) = {}
       THEN /\ result' = Raised
            /\ op' = ConnectorsOp(calls[c].repo,
                        IF fault = "stream" THEN fault ELSE "missing",
                        calls[c].before)
            /\ calls' = [calls EXCEPT ![c] = Idle]
       ELSE /\ \E p \in Projections(catalog) :
                \E rows \in betweenness_stream(graph, p, calls[c].repo) :
                    calls' = [calls EXCEPT ![c] =
                        [pc |-> "drop", repo |-> calls[c].repo,
                         before |-> calls[c].before, rows |-> rows]]
            /\ UNCHANGED <<op, result>>
    /\ UNCHANGED <<graph, ingested, workers, rerun, db, catalog>>

\* session.run("CALL gds.graph.drop('file_collaboration')") and the return
ConnectorsDrop(c) ==
    /\ calls[c].pc = "drop"
    /\ result = NoResult
    /\ IF Projections(catalog) = {}
       THEN /\ result' = Raised
            /\ op' = ConnectorsOp(calls[c].repo, "missing", calls[c].before)
            /\ UNCHANGED catalog
       ELSE /\ catalog' = catalog \ Projections(catalog)
            /\ result' = Ok(calls[c].rows)
            /\ op' = ConnectorsOp(calls[c].repo, NoFault, calls[c].before)
    /\ calls' = [calls EXCEPT ![c] = Idle]
    /\ UNCHANGED <<graph, ingested, workers, rerun, db>>

ConnectorFacts ==
    {f \in Facts : /\ f.repository_info.name = "o/r1"
                    /\ f.author_name = "Al"}

\* fetch_commits awaits process_commit_data for each commit
ConnectorsIngest ==
    \E f \in ConnectorFacts :
        /\ \A c \in Callers : calls[c].pc = "idle"
        /\ ingested < MaxIngest
        /\ result = NoResult
        /\ graph' = process_commit_data(graph, f)
        /\ ingested' = ingested + 1
        /\ op' = [kind |-> "ingest", repo |-> f.repository_info.name]
        /\ result' = NoResult
        /\ UNCHANGED <<workers, rerun, db, catalog, calls>>

(***************************************************************************)
(* SpecConnectors: two callers of get_connector_developers whose           *)
(* statements interleave, every statement of the stream and the drop       *)
(* succeeding.                                                             *)
(***************************************************************************)
NextConnectors ==
    \/ ConnectorsIngest
    \/ \E c \in Callers :
        \/ \E fault \in {NoFault, "project"} : ConnectorsProject(c, fault)
        \/ ConnectorsStream(c, NoFault)
        \/ ConnectorsDrop(c)
    \/ Return

SpecConnectors == Init /\ [][NextConnectors]_vars

(***************************************************************************)
(* SpecConnectorFaults: the same calls where a statement may fail.         *)
(***************************************************************************)
NextConnectorFaults ==
    \/ ConnectorsIngest
    \/ \E c \in Callers :
        \/ \E fault \in {NoFault, "project"} : ConnectorsProject(c, fault)
        \/ \E fault \in {NoFault, "stream"} : ConnectorsStream(c, fault)
        \/ ConnectorsDrop(c)
    \/ Return

SpecConnectorFaults == Init /\ [][NextConnectorFaults]_vars

(***************************************************************************)
(* SpecUpserts: the check-then-insert calls of crud.py and get_repo_id by  *)
(* two server processes on one database.  Each call opens its own          *)
(* connection, SELECTs the row of the natural key, then UPDATEs or INSERTs *)
(* and commits.  The tables' keys are declared outside this source: an     *)
(* INSERT of a natural key the table already holds either is refused as a  *)
(* duplicate key or adds a second row.                                     *)
(***************************************************************************)
MaxRows == 3        \* rows inserted per behaviour of SpecUpserts

RepoIdArgs == {1, 2}
CommitMessages == {"m", "m2"}
ContributionCounts == {1, 2}
Usernames == {"al", "bo"}

CommitRows(t, sha, repo_id) ==
    {row \in t.commits : row.sha = sha /\ row.repo_id = repo_id}

ContributorRows(t, username, repo_id) ==
    {row \in t.contributors : row.username = username /\ row.repo_id = repo_id}

\* insert_commit: SELECT id FROM commits WHERE sha = %s AND repo_id = %s
InsertCommitSelect(c) ==
    /\ calls[c].pc = "idle"
    /\ db.next <= MaxRows
    /\ \E repo_id \in RepoIdArgs, sha \in Hashes, message \in CommitMessages :
        calls' = [calls EXCEPT ![c] =
            [pc |-> "insert_commit", repo_id |-> repo_id, sha |-> sha,
             message |-> message,
             existing_commit |-> CommitRows(db, sha, repo_id) # {}]]
    /\ UNCHANGED <<graph, ingested, op, result, workers, rerun, db, catalog>>

\* insert_commit: UPDATE or INSERT, connection.commit();
\* except mysql.connector.Error: raise HTTPException(500)
InsertCommitWrite(c) ==
    /\ calls[c].pc = "insert_commit"
    /\ result = NoResult
    /\ LET a == calls[c]
           held == CommitRows(db, a.sha, a.repo_id)
           inserted == [db EXCEPT
                !.commits = @ \cup {[id |-> db.next, sha |-> a.sha,
                                     repo_id |-> a.repo_id,
                                     message |-> a.message]},
                !.next = @ + 1]
           updated == [db EXCEPT
                !.commits = (@ \ held)
                    \cup {[row EXCEPT !.message = a.message] : row \in held}]
       IN  \/ /\ a.existing_commit
              /\ db' = updated
              /\ result' = Http(200, <<>>)
           \/ /\ ~a.existing_commit
              /\ db' = inserted
              /\ result' = Http(200, <<>>)
           \/ /\ ~a.existing_commit
              /\ held # {}
              /\ db' = db
              /\ result' = Http(500, <<>>)
    /\ op' = [kind |-> "insert_commit", repo_id |-> calls[c].repo_id,
              sha |-> calls[c].sha]
    /\ calls' = [calls EXCEPT ![c] = Idle]
    /\ UNCHANGED <<graph, ingested, workers, rerun, catalog>>

\* insert_contributor: SELECT id FROM contributors WHERE username AND repo_id
InsertContributorSelect(c) ==
    /\ calls[c].pc = "idle"
    /\ db.next <= MaxRows
    /\ \E repo_id \in RepoIdArgs, username \in Usernames,
          contributions \in ContributionCounts :
        calls' = [calls EXCEPT ![c] =
            [pc |-> "insert_contributor", repo_id |-> repo_id,
             username |-> username, contributions |-> contributions,
             existing_contributor |->
                 ContributorRows(db, username, repo_id) # {}]]
    /\ UNCHANGED <<graph, ingested, op, result, workers, rerun, db, catalog>>

\* insert_contributor: UPDATE or INSERT, connection.commit()
InsertContributorWrite(c) ==
    /\ calls[c].pc = "insert_contributor"
    /\ result = NoResult
    /\ LET a == calls[c]
           held == ContributorRows(db, a.username, a.repo_id)
           inserted == [db EXCEPT
                !.contributors = @ \cup {[id |-> db.next, username |-> a.username,
                                          repo_id |-> a.repo_id,
                                          contributions |-> a.contributions]},
                !.next = @ + 1]
           updated == [db EXCEPT
                !.contributors = (@ \ held)
                    \cup {[row EXCEPT !.contributions = a.contributions] :
                            row \in held}]
       IN  \/ /\ a.existing_contributor
              /\ db' = updated
              /\ result' = Http(200, <<>>)
           \/ /\ ~a.existing_contributor
              /\ db' = inserted
              /\ result' = Http(200, <<>>)
           \/ /\ ~a.existing_contributor
              /\ held # {}
              /\ db' = db
              /\ result' = Http(500, <<>>)
    /\ op' = [kind |-> "insert_contributor", repo_id |-> calls[c].repo_id,
              username |-> calls[c].username]
    /\ calls' = [calls EXCEPT ![c] = Idle]
    /\ UNCHANGED <<graph, ingested, workers, rerun, catalog>>

\* get_repo_id: SELECT id FROM repositories WHERE owner AND repo_name;
\* the row found is returned at once
RepoIdSelect(c) ==
    /\ calls[c].pc = "idle"
    /\ result = NoResult
    /\ db.next <= MaxRows
    /\ \E repo_name \in Repos :
        IF RepositoryRows(db, repo_name) # {}
        THEN /\ \E row \in RepositoryRows(db, repo_name) :
                    result' = [status |-> "ok", id |-> row.id]
             /\ op' = [kind |-> "get_repo_id", repo |-> repo_name,
                       fault |-> NoFault]
             /\ UNCHANGED calls
        ELSE /\ calls' = [calls EXCEPT ![c] =
                    [pc |-> "get_repo_id", repo |-> repo_name]]
             /\ UNCHANGED <<op, result>>
    /\ UNCHANGED <<graph, ingested, workers, rerun, db, catalog>>

\* get_repo_id: INSERT INTO repositories, commit, cursor.lastrowid;
\* except Exception: return 1
RepoIdInsert(c) ==
    /\ calls[c].pc = "get_repo_id"
    /\ result = NoResult
    /\ LET repo_name == calls[c].repo
       IN  \/ /\ db' = [db EXCEPT
                    !.repositories = @ \cup {[id |-> db.next, name |-> repo_name]},
                    !.next = @ + 1]
              /\ result' = [status |-> "ok", id |-> db.next]
              /\ op' = [kind |-> "get_repo_id", repo |-> repo_name,
                        fault |-> NoFault]
           \/ /\ RepositoryRows(db, repo_name) # {}
              /\ db' = db
              /\ result' = [status |-> "ok", id |-> FallbackRepoId]
              /\ op' = [kind |-> "get_repo_id", repo |-> repo_name,
                        fault |-> "insert"]
    /\ calls' = [calls EXCEPT ![c] = Idle]
    /\ UNCHANGED <<graph, ingested, workers, rerun, catalog>>

NextUpserts ==
    \/ \E c \in Callers :
        \/ InsertCommitSelect(c)
        \/ InsertCommitWrite(c)
        \/ InsertContributorSelect(c)
        \/ InsertContributorWrite(c)
        \/ RepoIdSelect(c)
        \/ RepoIdInsert(c)
    \/ Return

SpecUpserts == Init /\ [][NextUpserts]_vars

(***************************************************************************)
(* crud.insert_developer_contribution: one INSERT ... ON DUPLICATE KEY     *)
(* UPDATE statement and the commit.  Where a unique key of the table       *)
(* covers (contribution_period_id, contributor_username) the row of the    *)
(* key has the new counts added to its own; where none does, the statement *)
(* inserts a further row.                                                  *)
(***************************************************************************)
MaxContributions == 2   \* largest contributions_total a row reaches

PeriodIds == {1, 2}
Counts == {0, 1}

ContributionArgs ==
    [contribution_period_id : PeriodIds, contributor_username : {"al"},
     commits : Counts, prs : Counts, issues : Counts, reviews : Counts]

ContributionRows(t, a) ==
    {row \in t.developer_contributions :
        /\ row.contribution_period_id = a.contribution_period_id
        /\ row.contributor_username = a.contributor_username}

\* contributions_total = commits + prs + issues + reviews
contributions_total(a) == a.commits + a.prs + a.issues + a.reviews

insert_developer_contribution(t, a) ==
    LET held == ContributionRows(t, a)
        inserted == [t EXCEPT
            !.developer_contributions = @ \cup
                {[id |-> t.next,
                  contribution_period_id |-> a.contribution_period_id,
                  contributor_username |-> a.contributor_username,
                  commits_count |-> a.commits,
                  pull_requests_count |-> a.prs,
                  issues_count |-> a.issues,
                  reviews_count |-> a.reviews,
                  contributions_total |-> contributions_total(a)]},
            !.next = @ + 1]
        added(row) == [row EXCEPT
            !.commits_count = @ + a.commits,
            !.pull_requests_count = @ + a.prs,
            !.issues_count = @ + a.issues,
            !.reviews_count = @ + a.reviews,
            !.contributions_total = @ + contributions_total(a)]
    IN  IF held = {} THEN {inserted}
        ELSE {inserted}
             \cup {[t EXCEPT !.developer_contributions =
                                (@ \ {row}) \cup {added(row)}] : row \in held}

\* once: the table as the first of a run of calls with these arguments left it
DeveloperContribution ==
    \E a \in ContributionArgs :
        /\ result = NoResult
        /\ db.next <= MaxRows
        /\ \A row \in ContributionRows(db, a) :
                row.contributions_total + contributions_total(a) <= MaxContributions
        /\ db' \in insert_developer_contribution(db, a)
        /\ op' = [kind |-> "insert_developer_contribution", args |-> a,
                  once |-> IF op.kind = "insert_developer_contribution" /\ op.args = a
                           THEN op.once ELSE db'.developer_contributions]
        /\ UNCHANGED <<graph, ingested, result, workers, rerun, catalog, calls>>

\* insert_contribution_period: a plain INSERT; the period's id is the row's
ContributionPeriod ==
    /\ result = NoResult
    /\ db.next <= MaxRows
    /\ db' = [db EXCEPT !.next = @ + 1]
    /\ op' = [kind |-> "insert_contribution_period", id |-> db.next]
    /\ UNCHANGED <<graph, ingested, result, workers, rerun, catalog, calls>>

NextContributions ==
    \/ DeveloperContribution
    \/ ContributionPeriod

SpecContributions == Init /\ [][NextContributions]_vars

(***************************************************************************)
(* GraphQueries.get_developer_contributions                                *)
(***************************************************************************)
\* MATCH (allFiles:File)-[:BELONGS_TO]->(r) drops the developers of a
\* repository node without files
ContributionGroups(g, repo_name) ==
    {<<r, d>> \in RepoNodes(g, repo_name) \X g.devs :
        /\ Rel("BELONGS_TO", d.id, r.id) \in g.rels
        /\ FileRows(g, r) # {}}

DeveloperContributionRow(g, grp) ==
    LET commits == Cardinality(CommitsBy(g, grp[2]))
        files_touched == Cardinality(Reachable(g, grp[2]))
        total_files == Cardinality(FileRows(g, grp[1]))
    IN  [github |-> grp[2].github, name |-> grp[2].name, email |-> grp[2].email,
         commits |-> commits, files_touched |-> files_touched,
         total_files |-> total_files,
         knowledge_breadth |-> <<files_touched, total_files>>]

\* ORDER BY file_coverage DESC
DeveloperContributionBefore(g, S) ==
    {<<a, b>> \in S \X S :
        RatLess(DeveloperContributionRow(g, b).knowledge_breadth,
                DeveloperContributionRow(g, a).knowledge_breadth)}

get_developer_contributions(g, repo_name, limit) ==
    IF limit < 0 THEN {Raised}
    ELSE {Ok(Limit([i \in 1..Len(s) |-> DeveloperContributionRow(g, s[i])], limit)) :
            s \in Ordered(ContributionGroups(g, repo_name),
                          DeveloperContributionBefore(
                              g, ContributionGroups(g, repo_name)))}

DeveloperContributions ==
    /\ result = NoResult
    /\ \E repo \in Repos, limit \in Limits :
        /\ result' \in get_developer_contributions(graph, repo, limit)
        /\ op' = [kind |-> "get_developer_contributions", repo |-> repo,
                  limit |-> limit]
        /\ UNCHANGED <<graph, ingested, workers, rerun, db, catalog, calls>>

(***************************************************************************)
(* SpecCoverage: commits of several repositories ingested one call at a    *)
(* time, and the three queries that report a coverage.                     *)
(***************************************************************************)
NextCoverage ==
    \/ IngestFact
    \/ Jacks
    \/ DeveloperContributions
    \/ KnowledgeDistribution
    \/ Return

SpecCoverage == Init /\ [][NextCoverage]_vars

(***************************************************************************)
(* Github_Api_Controller.fetch_commits: for each commit fetched,           *)
(*   repo_id = get_repo_id(repo); crud.insert_commit(repo_id, sha, ...)    *)
(*   await graph_db_service.process_commit_data(sha=..., ...)              *)
(* inside try ... except Exception: raise HTTPException(500).              *)
(***************************************************************************)
\* the parameters of process_commit_data
ProcessCommitParameters ==
    {"sha", "author_name", "author_email", "author_github", "date", "message",
     "added_files", "modified_files", "deleted_files", "repository_info"}

\* the keyword arguments fetch_commits passes
FetchCommitsKeywords ==
    ProcessCommitParameters
        \cup {"lines_added", "lines_removed", "overall_code_quality",
              "commit_type_set"}

\* a call binds its keywords to the parameters before the body runs; a
\* keyword that is no parameter raises TypeError
process_commit_call(g, f, keywords) ==
    IF keywords \subseteq ProcessCommitParameters
    THEN [status |-> "ok", graph |-> process_commit_data(g, f)]
    ELSE [status |-> "TypeError", graph |-> g]

\* crud.insert_commit by one caller: SELECT, then UPDATE or INSERT, commit
insert_commit(t, repo_id, sha, message) ==
    LET held == CommitRows(t, sha, repo_id)
    IN  IF held # {}
        THEN [t EXCEPT !.commits = (@ \ held)
                \cup {[row EXCEPT !.message = message] : row \in held}]
        ELSE [t EXCEPT !.commits = @ \cup {[id |-> t.next, sha |-> sha,
                                            repo_id |-> repo_id,
                                            message |-> message]},
                       !.next = @ + 1]

RECURSIVE fetch_commits(_, _, _)
\* the loop over detailed_commits: the tables and the graph it leaves, and
\* the status of the response
fetch_commits(t, g, batch) ==
    IF batch = <<>> THEN {[db |-> t, graph |-> g, code |-> 200]}
    ELSE LET f == Head(batch)
         IN  UNION {LET saved == insert_commit(r.db, r.id, f.sha, f.message)
                        call == process_commit_call(g, f, FetchCommitsKeywords)
                    IN  IF call.status = "ok"
                        THEN fetch_commits(saved, call.graph, Tail(batch))
                        ELSE {[db |-> saved, graph |-> g, code |-> 500]} :
                      r \in get_repo_id(t, f.repository_info.name, NoFault)}

MaxFetch == 2       \* commits one request fetches

FetchFacts(repo) ==
    {f \in Facts : f.repository_info.name = repo /\ f.author_name = "Al"}

\* GET /commits?repo=...&limit=...
FetchCommits ==
    /\ result = NoResult
    /\ \E repo \in Repos, n \in 0..MaxFetch :
        \E batch \in [1..n -> FetchFacts(repo)] :
            \E out \in fetch_commits(db, graph, batch) :
                /\ db' = out.db
                /\ graph' = out.graph
                /\ result' = Http(out.code, <<>>)
                /\ op' = [kind |-> "fetch_commits", repo |-> repo,
                          batch |-> batch]
    /\ UNCHANGED <<ingested, workers, rerun, catalog, calls>>

NextFetch ==
    \/ FetchCommits
    \/ Return

SpecFetch == Init /\ [][NextFetch]_vars

(***************************************************************************)
(* Properties.                                                             *)
(***************************************************************************)
NodeIds(g) ==
    {n.id : n \in g.devs} \cup {n.id : n \in g.files} \cup {n.id : n \in g.commits}

RepoIds(g) == {r.id : r \in g.repos}

\* handles in ascending (lexicographic) order
HandleOrder == <<"al", "bo", "unknown">>
HandleRank(h) == CHOOSE i \in 1..Len(HandleOrder) : HandleOrder[i] = h

IsJacksCall == op.kind = "get_jacks" /\ result.status = "ok"
IsMavensCall == op.kind = "get_mavens" /\ result.status = "ok"
Rows == {result.rows[i] : i \in 1..Len(result.rows)}

\* C1 (SpecBatch): once a batch of commit facts has been ingested, ingesting
\* the same batch a second time leaves the graph exactly as the first run left
\* it: the same nodes with the same attributes and identities, the same edges.
C1_BatchIdempotent ==
    (rerun.replayed > 0 /\ rerun.replayed = Len(rerun.batch)) => graph = rerun.once

\* a batch of two different facts about one commit hash, by two authors and
\* with a file each, has been ingested and then ingested a second time
C1_Witness ==
    /\ Len(rerun.batch) = 2
    /\ rerun.replayed = 2
    /\ rerun.batch[1].sha = rerun.batch[2].sha
    /\ rerun.batch[1].author_github # rerun.batch[2].author_github
    /\ Len(FileWork(rerun.batch[1])) = 1
    /\ Len(FileWork(rerun.batch[2])) = 1
    /\ Cardinality(graph.devs) = 2
    /\ Cardinality(graph.files) >= 1

\* C2: ingesting a commit fact tagged with one repository never changes what
\* jacks or mavens answer for any other repository.
C2_NoCrossRepositoryLeak ==
    [][op'.kind = "ingest" =>
        \A R \in Repos \ {op'.repo} : \A limit \in 0..MaxLimit :
            /\ get_jacks(graph', R, limit) = get_jacks(graph, R, limit)
            /\ get_mavens(graph', R, limit) = get_mavens(graph, R, limit)]_vars

NoDuplicateNodes(g) ==
    /\ \A a, b \in g.repos : a.name = b.name => a = b
    /\ \A a, b \in g.devs :
        (a.github = b.github /\ a.repository = b.repository) => a = b
    /\ \A a, b \in g.files :
        (a.path = b.path /\ a.repository = b.repository) => a = b
    /\ \A a, b \in g.commits : a.hash = b.hash => a = b

\* C3 (SpecConc): when the concurrent process_commit_data calls have all
\* returned, the graph holds at most one node per natural key.
C3_NoDuplicatesUnderConcurrency ==
    (\A w \in Workers : workers[w].pc = "idle") => NoDuplicateNodes(graph)

\* C4: after every ingestion each commit has exactly one COMMITTED_BY edge,
\* and a commit that existed before the ingestion keeps the edge it had.
C4_AuthorImmutable ==
    [][op'.kind = "ingest" =>
        /\ \A c \in graph'.commits : Cardinality(AuthorRels(graph', c)) = 1
        /\ \A c \in graph.commits : AuthorRels(graph', c) = AuthorRels(graph, c)]_vars

\* C5: between a commit and a file there is at most one change edge
\* (one of ADDED, MODIFIED, DELETED).
C5_OneChangeTypePerCommitFile ==
    \A c \in graph.commits, f \in graph.files :
        Cardinality(ChangeRels(graph, c, f)) <= 1

\* C6: every Developer, File and Commit node has a BELONGS_TO edge to exactly
\* one Repository.
C6_ExactlyOneRepository ==
    \A n \in NodeIds(graph) :
        Cardinality({r \in RepoIds(graph) : Rel("BELONGS_TO", n, r) \in graph.rels}) = 1

\* C7: every developer that get_jacks returns has
\* coverage = files_reached / total_files >= min_coverage (0.3).
C7_JacksMeetMinCoverage ==
    IsJacksCall =>
        \A row \in Rows :
            ~RatLess(<<row.files_reached, row.total_files>>,
                     <<MinCoverageNum, MinCoverageDen>>)

\* C8: along the list get_jacks returns coverage never increases, and of two
\* developers with equal coverage the one with the smaller handle comes first.
C8_JacksTotallyOrdered ==
    IsJacksCall =>
        \A i, j \in 1..Len(result.rows) :
            i < j =>
                LET a == result.rows[i]
                    b == result.rows[j]
                IN  /\ ~RatLess(a.knowledge_breadth, b.knowledge_breadth)
                    /\ RatEq(a.knowledge_breadth, b.knowledge_breadth)
                          => HandleRank(a.github) <= HandleRank(b.github)

\* the files of the repository whose only contributor is the developer `github`
SoleOwned(g, repo_name, github) ==
    {f \in g.files :
        /\ BelongsTo(g, f, repo_name)
        /\ \E d \in g.devs : d.github = github /\ Contributors(g, f) = {d}}

RECURSIVE SumRare(_)
SumRare(rows) ==
    IF rows = <<>> THEN 0 ELSE Head(rows).rare_files_count + SumRare(Tail(rows))

\* C9: for every maven returned, rare_files_count is the number of distinct
\* files whose only contributor is that developer; the counts sum to at most
\* total_files and mavenness is at most 1.
C9_MavensCountDistinctFiles ==
    IsMavensCall =>
        /\ \A row \in Rows :
            /\ row.rare_files_count
                 = Cardinality(SoleOwned(graph, op.repo, row.github))
            /\ ~RatLess(<<1, 1>>, row.mavenness)
        /\ SumRare(result.rows) <= TotalFiles(graph, op.repo)

\* C10: a list-returning query called with limit returns, without raising,
\* at most max(0, limit) records.
C10_LimitIsHardCap ==
    op.kind \in {"get_jacks", "get_mavens"} =>
        /\ result.status = "ok"
        /\ Len(result.rows) <= Max(0, op.limit)

(***************************************************************************)
(* Properties of the other analytic operations (SpecInsights).             *)
(***************************************************************************)
\* the developer records of the repository that a returned row names
DevelopersNamed(g, repo_name, github) ==
    {d \in g.devs : d.github = github /\ BelongsTo(g, d, repo_name)}

\* the other developers of the repository with a commit on a file that a
\* commit of d also touches
PeersOf(g, repo_name, d) ==
    {o \in g.devs : /\ o # d
                    /\ BelongsTo(g, o, repo_name)
                    /\ Reachable(g, d) \cap Reachable(g, o) # {}}

SharedWithPeers(g, repo_name, d) ==
    {f \in Reachable(g, d) : \E o \in PeersOf(g, repo_name, d) : f \in Reachable(g, o)}

\* C11: every record get_connectors returns has collaborator_count = the
\* number of other developers of the repository sharing a file with the
\* developer, shared_file_count = the number of files the developer shares
\* with at least one of them, score = their product; scores never increase
\* along the list.
C11_ConnectorCounts ==
    (op.kind = "get_connectors" /\ result.status = "ok") =>
        /\ \A i \in 1..Len(result.rows) :
            \A d \in DevelopersNamed(graph, op.repo, result.rows[i].github) :
                /\ result.rows[i].collaborator_count
                     = Cardinality(PeersOf(graph, op.repo, d))
                /\ result.rows[i].shared_file_count
                     = Cardinality(SharedWithPeers(graph, op.repo, d))
                /\ result.rows[i].betweenness_centrality
                     = result.rows[i].collaborator_count
                        * result.rows[i].shared_file_count
        /\ \A i, j \in 1..Len(result.rows) :
            i < j => result.rows[i].betweenness_centrality
                        >= result.rows[j].betweenness_centrality

\* the files of the repository that a developer's commits touch
RepoFilesOf(g, repo_name, d) == {f \in Reachable(g, d) : BelongsTo(g, f, repo_name)}

NotFound(r) == r.status = "not_found" \/ (r.status = "http" /\ r.code = 404)
EmptySuccess(r) == r = Ok(<<>>) \/ r = Http(200, <<>>)

\* C12: replacements (the query and its endpoint), asked with a positive
\* limit about a leaving developer the repository does not have, signals
\* NotFound: neither an empty list nor a generic error.
C12_AbsentDeveloperNotFound ==
    (/\ op.kind \in {"get_replacements", "replacements_endpoint"}
     /\ op.limit > 0
     /\ DevelopersNamed(graph, op.repo, op.github) = {})
        => NotFound(result)

\* C13: replacements (the query and its endpoint), asked with a positive
\* limit about a leaving developer who exists but has no files, or who is
\* the only developer of the repository, completes successfully with an
\* empty list.
C13_NothingToReplaceIsEmpty ==
    (/\ op.kind \in {"get_replacements", "replacements_endpoint"}
     /\ op.limit > 0
     /\ DevelopersNamed(graph, op.repo, op.github) # {}
     /\ \/ \A d \in DevelopersNamed(graph, op.repo, op.github) :
                RepoFilesOf(graph, op.repo, d) = {}
        \/ DevelopersOf(graph, op.repo) = DevelopersNamed(graph, op.repo, op.github))
        => EmptySuccess(result)

\* the overlap ratio a returned record carries
OverlapOf(row) ==
    IF op.kind = "get_replacements" THEN row.overlap_ratio ELSE row.knowledge_overlap

\* C14: every record replacements returns for candidate D carries
\* overlap_ratio = |leaving_files \cap reachable(D)| / |leaving_files| over
\* sets of distinct files, whatever the number of commits on each file; the
\* ratio is at most 1.
C14_OverlapOverDistinctFiles ==
    (/\ op.kind \in {"get_replacements", "get_replacement_recommendations"}
     /\ result.status = "ok")
        => \A i \in 1..Len(result.rows) :
            /\ ~RatLess(<<1, 1>>, OverlapOf(result.rows[i]))
            /\ \A l \in DevelopersNamed(graph, op.repo, op.github) :
               \A d \in DevelopersNamed(graph, op.repo, result.rows[i].github) :
                  LET leaving_files == RepoFilesOf(graph, op.repo, l)
                  IN  RatEq(OverlapOf(result.rows[i]),
                            <<Cardinality(leaving_files \cap Reachable(graph, d)),
                              Cardinality(leaving_files)>>)

(***************************************************************************)
(* Properties of the repository-wide operations (SpecDistribution).        *)
(***************************************************************************)
IsDistributionCall ==
    op.kind \in {"get_knowledge_distribution", "analytics_knowledge_distribution"}

\* the repository has at least one developer and one file
NonEmptyRepository(g, repo_name) ==
    DevelopersOf(g, repo_name) # {} /\ FilesOf(g, repo_name) # {}

\* files_touched(D), the numerator of coverage(D)
Touched(g, d) == Cardinality(Reachable(g, d))

RECURSIVE TotalTouched(_, _)
TotalTouched(g, D) ==
    IF D = {} THEN 0
    ELSE LET d == CHOOSE x \in D : TRUE
         IN  Touched(g, d) + TotalTouched(g, D \ {d})

\* |D| * (files_touched(d) - the mean of files_touched over D)
Centred(g, D, d) == Cardinality(D) * Touched(g, d) - TotalTouched(g, D)

\* the sum over the developers in rest of Centred ^ power (power 2 or 3)
RECURSIVE Moment(_, _, _, _)
Moment(g, D, rest, power) ==
    IF rest = {} THEN 0
    ELSE LET d == CHOOSE x \in rest : TRUE
             c == Centred(g, D, d)
         IN  (IF power = 2 THEN c * c ELSE c * c * c)
                + Moment(g, D, rest \ {d}, power)

\* skewness > 1.0 or max_coverage > 3 * average_coverage, over the coverages
\* of the developers of the repository
HeroRule(g, repo_name) ==
    LET D == DevelopersOf(g, repo_name)
        m2 == Moment(g, D, D, 2)
        m3 == Moment(g, D, D, 3)
    IN  \/ m2 > 0 /\ m3 > 0 /\ Cardinality(D) * m3 * m3 > m2 * m2 * m2
        \/ \E d \in D : Cardinality(D) * Touched(g, d) > 3 * TotalTouched(g, D)

ZeroSkewness(rec) == "skewness" \in DOMAIN rec /\ rec.skewness.m3 = 0

\* C15: when the repository has a file and a developer and all its
\* developers have the same coverage, knowledge_distribution returns
\* skewness 0 and distribution_type "balanced".
C15_EqualCoverageIsBalanced ==
    (/\ IsDistributionCall
     /\ NonEmptyRepository(graph, op.repo)
     /\ \A d, e \in DevelopersOf(graph, op.repo) : Touched(graph, d) = Touched(graph, e))
        => /\ result.status = "ok"
           /\ ZeroSkewness(result.record)
           /\ result.record.distribution_type = "balanced"

\* the "unknown" record: no contributor, no type, every statistic 0
IsUnknownRecord(rec) ==
    /\ rec.top_contributor = "unknown"
    /\ rec.distribution_type = "unknown"
    /\ rec.top_coverage[1] = 0
    /\ rec.average_coverage[1] = 0
    /\ rec.coverage_variance[1] = 0
    /\ rec.skewness.m3 = 0
    /\ rec.dev_count = 0
    /\ rec.total_files = 0

\* C16: on a repository without developers or without files (or absent),
\* knowledge_distribution returns the "unknown" record and does not raise;
\* the summary endpoint answers 200 with "unknown" for both of its fields.
C16_EmptyRepositoryIsUnknown ==
    (/\ op.kind \in {"get_knowledge_distribution",
                      "analytics_knowledge_distribution", "get_repo_summary"}
     /\ ~NonEmptyRepository(graph, op.repo))
        => IF op.kind = "get_repo_summary"
           THEN /\ result.code = 200
                /\ result.record.knowledge_distribution = "unknown"
                /\ result.record.top_contributor = "unknown"
           ELSE result.status = "ok" /\ IsUnknownRecord(result.record)

\* C17: on a repository with a developer and a file, knowledge_distribution
\* returns "hero" when skewness > 1.0 or max_coverage > 3 * average_coverage
\* and "balanced" otherwise, and no other value.
C17_HeroIffRule ==
    (IsDistributionCall /\ NonEmptyRepository(graph, op.repo))
        => /\ result.status = "ok"
           /\ result.record.distribution_type \in {"hero", "balanced"}
           /\ result.record.distribution_type = "hero" <=> HeroRule(graph, op.repo)

\* no ingestion is under way: the store is in a fixed state
StoreAtRest == \A w \in Workers : workers[w] = Idle

\* the total_files of every row a result carries
RowTotals(r) == {r.rows[i].total_files : i \in 1..Len(r.rows)}

\* C18: in a fixed store state and for every repository, the total_files of
\* jacks, the total_files mavens divides by and the total_files of
\* knowledge_distribution are one number, the number of rows critical_files
\* returns when its limit does not cut the list.
C18_TotalFilesAgree ==
    StoreAtRest =>
        \A repo \in Repos :
            \A cf \in get_critical_files(graph, repo, Cardinality(graph.files)) :
                /\ \A j \in get_jacks(graph, repo, Cardinality(graph.devs)) :
                        RowTotals(j) \subseteq {Len(cf.rows)}
                /\ TotalFiles(graph, repo) = Len(cf.rows)
                /\ \A k \in get_knowledge_distribution(graph, repo) :
                        k.record.total_files = Len(cf.rows)

RECURSIVE ContributorSum(_, _)
\* the sum over the files F of their numbers of distinct committers
ContributorSum(g, F) ==
    IF F = {} THEN 0
    ELSE LET f == CHOOSE x \in F : TRUE
         IN  Cardinality(Contributors(g, f)) + ContributorSum(g, F \ {f})

\* C19: the bus-factor analysis counts, per file, the distinct developers
\* with a commit touching the file: overallBusFactor is the mean of that
\* count over the files, and each entry of highRiskFiles is a file whose
\* count is its busFactor and at most 2, the entries in ascending order.
C19_BusFactorCountsCommitters ==
    op.kind = "get_bus_factor_analysis"
        => /\ result.status = "ok"
           /\ graph.files # {}
                => /\ result.record.overallBusFactor # Null
                   /\ RatEq(result.record.overallBusFactor,
                            <<ContributorSum(graph, graph.files),
                              Cardinality(graph.files)>>)
           /\ LET h == result.record.highRiskFiles
              IN  /\ \A i \in 1..Len(h) :
                        /\ h[i].busFactor <= 2
                        /\ \E f \in graph.files :
                            /\ f.path = h[i].path
                            /\ Cardinality(Contributors(graph, f)) = h[i].busFactor
                  /\ \A i, j \in 1..Len(h) :
                        i < j => h[i].busFactor <= h[j].busFactor

IsCollaborationCall ==
    \/ op.kind = "get_developer_collaborations" /\ op.limit >= 0
    \/ op.kind = "analytics_developer_collaborations"

\* C20: collaborations never pairs a developer with itself and returns no
\* unordered pair of developers twice; each row names two developers of the
\* repository and its collaboration_strength is the number of distinct files
\* touched by commits of both, which is positive; the rows come in
\* non-increasing order of strength.
C20_CollaborationPairs ==
    IsCollaborationCall
        => /\ result.status = "ok"
           /\ \A i \in 1..Len(result.rows) :
                LET row == result.rows[i]
                IN  /\ row.developer1 # row.developer2
                    /\ row.collaboration_strength > 0
                    /\ \E d1, d2 \in DevelopersOf(graph, op.repo) :
                        /\ d1.github = row.developer1
                        /\ d2.github = row.developer2
                        /\ row.collaboration_strength
                            = Cardinality(Reachable(graph, d1)
                                            \cap Reachable(graph, d2))
           /\ \A i, j \in 1..Len(result.rows) :
                i < j =>
                    /\ {result.rows[i].developer1, result.rows[i].developer2}
                        # {result.rows[j].developer1, result.rows[j].developer2}
                    /\ result.rows[i].collaboration_strength
                        >= result.rows[j].collaboration_strength

\* the paths of the model in ascending order: "a" < "m/b"
PathRank(path) == IF path = <<"a">> THEN 1 ELSE 2

\* row a comes strictly before row b: fewer contributors, or as many and a
\* smaller path
LessKnown(a, b) ==
    \/ a.contributors < b.contributors
    \/ /\ a.contributors = b.contributors
       /\ PathRank(a.file_path) < PathRank(b.file_path)

IsCriticalFilesCall ==
    \/ op.kind = "get_critical_files" /\ op.limit >= 0
    \/ op.kind = "get_file_contributor_count"

\* C21: critical_files returns its rows in ascending order of contributors,
\* rows with as many contributors in ascending order of path, and every
\* file of the repository it leaves out comes after every row it returns.
C21_CriticalFilesTotalOrder ==
    IsCriticalFilesCall
        => /\ result.status = "ok"
           /\ \A i, j \in 1..Len(result.rows) :
                i < j => LessKnown(result.rows[i], result.rows[j])
           /\ \A f \in FilesOf(graph, op.repo) :
                \/ \E i \in 1..Len(result.rows) : result.rows[i].file_path = f.path
                \/ \A i \in 1..Len(result.rows) :
                        LessKnown(result.rows[i], CriticalFileRow(graph, f))

\* C22: a call in which a store access fails answers its caller with an
\* error, not with a value.
C22_StoreFailurePropagates ==
    (/\ op.kind \in {"get_bus_factor_analysis", "get_developer_profile",
                      "get_repo_id"}
     /\ op.fault # NoFault) => result.status = "error"

\* the developers, files or pairs a result names, row by row
RowKey(kind, row) ==
    IF kind = "get_jacks" THEN <<row.github>>
    ELSE IF kind = "get_critical_files" THEN <<row.file_path>>
    ELSE <<row.developer1, row.developer2>>

\* the counts of a row: files_touched and total_files, contributor_count,
\* collaboration_strength
RowCounts(kind, row) ==
    IF kind = "get_jacks" THEN <<row.files_reached, row.total_files>>
    ELSE IF kind = "get_critical_files" THEN <<row.contributors>>
    ELSE <<row.collaboration_strength>>

SameQuery(g) ==
    IF op.kind = "get_jacks" THEN get_jacks(g, op.repo, op.limit)
    ELSE IF op.kind = "get_critical_files"
         THEN get_critical_files(g, op.repo, op.limit)
         ELSE get_developer_collaborations(g, op.repo, op.limit)

NoRowTwice(r) ==
    \A i, j \in 1..Len(r.rows) :
        i # j => RowKey(op.kind, r.rows[i]) # RowKey(op.kind, r.rows[j])

NoCountAbove(r, later) ==
    \A i \in 1..Len(r.rows), j \in 1..Len(later.rows) :
        RowKey(op.kind, r.rows[i]) = RowKey(op.kind, later.rows[j])
            => \A k \in 1..Len(RowCounts(op.kind, r.rows[i])) :
                    RowCounts(op.kind, r.rows[i])[k]
                        <= RowCounts(op.kind, later.rows[j])[k]

\* C23: what a query returned between two store steps of an ingestion names
\* no developer, file or pair twice, and once the ingestion has completed
\* the same query reports no smaller files_touched, total_files,
\* contributor_count or collaboration_strength for any of them.
C23_MidIngestionNeverOvercounts ==
    (/\ op.kind \in {"get_jacks", "get_critical_files",
                      "get_developer_collaborations"}
     /\ result.status = "ok")
        => /\ NoRowTwice(result)
           /\ StoreAtRest => \A later \in SameQuery(graph) : NoCountAbove(result, later)

\* C24 (SpecRead): every value in the result of one get_mavens call derives
\* from one single committed state of the store: some state the store was in
\* during the call gives exactly this result (sole-owner counts, total_files
\* denominator and developer details together).
C24_ResultFromOneState ==
    (op.kind = "get_mavens" /\ result.status = "ok")
        => \E g \in op.seen : result \in get_mavens(g, op.repo, op.limit)

IsConnectorsCall == op.kind = "get_connector_developers"

\* C25 (SpecConnectors): two get_connector_developers calls may run
\* concurrently: under every interleaving of their store statements, a call
\* whose projection the store did not refuse on its own account completes
\* without error and returns a result the call returns when it runs alone on
\* the same store state.
C25_ConcurrentCallsDoNotInterfere ==
    (IsConnectorsCall /\ op.fault # "project")
        => result \in get_connector_developers(op.graph, op.repo)

\* C26 (SpecConnectorFaults): analytic operations are pure readers: once a
\* get_connector_developers call has returned or raised and no call is under
\* way, the store holds exactly the nodes, edges and named graph projections
\* it held when the call began, and the call was not refused the name of a
\* projection an earlier call left behind.
C26_AnalyticCallsArePureReaders ==
    (IsConnectorsCall /\ \A c \in Callers : calls[c].pc = "idle")
        => /\ graph = op.graph
           /\ catalog = op.catalog
           /\ op.fault # "exists"

\* no two rows of a table carry the same natural key
NaturalKeysUnique(t) ==
    /\ \A a, b \in t.commits : (a.sha = b.sha /\ a.repo_id = b.repo_id) => a = b
    /\ \A a, b \in t.contributors :
            (a.username = b.username /\ a.repo_id = b.repo_id) => a = b
    /\ \A a, b \in t.repositories : a.name = b.name => a = b

\* C27 (SpecUpserts): concurrent relational upserts of one natural key
\* (insert_commit with the same sha and repo_id, insert_contributor with the
\* same username and repo_id, get_repo_id with the same owner/repo) leave
\* exactly one row for the key, and no call fails: no insert ends in an
\* error response and get_repo_id never falls back on an exception.
C27_ConcurrentUpsertsLeaveOneRow ==
    /\ NaturalKeysUnique(db)
    /\ op.kind \in {"insert_commit", "insert_contributor"} => result.code = 200
    /\ op.kind = "get_repo_id" => op.fault = NoFault

\* C28 (SpecContributions): insert_developer_contribution is idempotent:
\* called again with the same (contribution_period_id, contributor_username,
\* commits, prs, issues, reviews), it leaves the stored rows, their counts and
\* contributions_total as the first call left them.
C28_DeveloperContributionIdempotent ==
    op.kind = "insert_developer_contribution"
        => db.developer_contributions = op.once

CoverageInRange(x) == ~RatLess(x, <<0, 1>>) /\ ~RatLess(<<1, 1>>, x)

\* C29 (SpecCoverage): after any sequence of ingestions over any number of
\* repositories, every record of jacks and of developer_contributions has
\* 0 <= files reached <= total_files, and knowledge_distribution reports
\* 0 <= average_coverage <= top_coverage <= 1.
C29_CoverageWithinBounds ==
    /\ (op.kind = "get_jacks" /\ result.status = "ok") =>
            \A i \in 1..Len(result.rows) :
                /\ 0 <= result.rows[i].files_reached
                /\ result.rows[i].files_reached <= result.rows[i].total_files
    /\ (op.kind = "get_developer_contributions" /\ result.status = "ok") =>
            \A i \in 1..Len(result.rows) :
                /\ 0 <= result.rows[i].files_touched
                /\ result.rows[i].files_touched <= result.rows[i].total_files
    /\ (op.kind = "get_knowledge_distribution" /\ result.status = "ok") =>
            /\ CoverageInRange(result.record.average_coverage)
            /\ CoverageInRange(result.record.top_coverage)
            /\ ~RatLess(result.record.top_coverage, result.record.average_coverage)

\* the relational store holds the commit of the fact
Recorded(t, f) ==
    \E r \in RepositoryRows(t, f.repository_info.name) :
        CommitRows(t, f.sha, r.id) # {}

\* the graph holds the commit of the fact, its author Developer, the
\* authorship edge and the change edge of every file of the fact
InGraph(g, f) ==
    \E c \in g.commits, d \in g.devs :
        /\ c.hash = f.sha
        /\ d.github = author_of(f).github
        /\ d.repository = f.repository_info.name
        /\ Rel("COMMITTED_BY", c.id, d.id) \in g.rels
        /\ \A i \in 1..Len(FileWork(f)) :
            \E file \in g.files :
                /\ file.path = FileWork(f)[i].path
                /\ file.repository = f.repository_info.name
                /\ Rel(FileWork(f)[i].type, c.id, file.id) \in g.rels

\* C30 (SpecFetch): for every commit fetch_commits processes, the relational
\* store and the graph stay consistent: a commit insert_commit has recorded
\* is also in the graph with its author Developer, authorship edge and
\* change edges; a commit whose graph write failed is not left in the
\* relational store alone.
C30_RelationalAndGraphConsistent ==
    op.kind = "fetch_commits" =>
        \A i \in 1..Len(op.batch) :
            Recorded(db, op.batch[i]) => InGraph(graph, op.batch[i])
====
